---- MODULE Spec2Model ----
(***************************************************************************)
(* Meshcrypt core: private transaction builder / verifier                  *)
(* (crates/core/src/transaction_builder.rs) and the stealth address        *)
(* protocol (crates/core/src/crypto/stealth.rs).                           *)
(*                                                                         *)
(* Group model.  A group element is a pair <<h, g>> standing for           *)
(* h*H + g*G, with H and G generators without known discrete-log relation  *)
(* (the generic-group reading of Ristretto).  Scalars are integers modulo  *)
(* GroupOrder.  The real order is about 2^252 and u64 values are below     *)
(* 2^64, so no feasible sum of transaction values wraps modulo the order;  *)
(* the scaled model keeps that relation: GroupOrder exceeds every sum of   *)
(* values that fits the bounds.                                            *)
(***************************************************************************)
EXTENDS Integers, Sequences, FiniteSets, TLC

VARIABLES
    inputs,       \* TransactionBuilder.inputs  : Seq(BuilderInput)
    outputs,      \* TransactionBuilder.outputs : Seq(BuilderOutput)
    fee,          \* TransactionBuilder.fee     : u64
    metadata,     \* TransactionBuilder.metadata : Option<Vec<u8>>
    calculated,   \* what the last calculate_change_blinding() returned
    calls,        \* history: the arguments of the builder calls made
    phase,        \* "building" | "built" | "detached" | "edited"
    result,       \* outcome of the last build(): [kind, info]
    tx,           \* the PrivateTransaction produced (EmptyTx before that)
    changeCount,  \* history: outputs installed with calculate_change_blinding()
    lateInput,    \* history: an input was added after a change output
    lateOutput,   \* history: an output was added after a change output
    master,       \* StealthMasterKey of the recipient
    stx,          \* StealthTransaction produced by the sender
    scanned,      \* result of the recipient's scan_transaction
    other,        \* StealthMasterKey of a second wallet
    scannedOther, \* result of the second wallet's scan_transaction
    batch,        \* candidate outputs handed to StealthScanner::scan_transactions
    cacheA,       \* scanned_outputs of the scanner built on master
    cacheB,       \* scanned_outputs of the scanner built on other
    ownedA,       \* what the first scanner's scan_transactions returned
    ownedB,       \* what the second scanner's scan_transactions returned
    wire,         \* an encoding in transit: bytes or base58 text
    decoded,      \* what the last decoder call returned
    wtx,          \* a PrivateTransaction with all its fields, to be transmitted
    wbytes,       \* what PrivateTransaction::to_bytes returned for it
    wback,        \* what PrivateTransaction::from_bytes returned for those bytes
    exported,     \* what export_spend_private / export_view_private returned
    restored,     \* the StealthMasterKey restored from the exported bytes
    db,           \* the wallet database at db_path: wallet_meta and accounts
    wallet,       \* the live WalletState, if any
    lastCall,     \* the last WalletState call: its arguments, result and pre-state
    origin,       \* the constructor the live WalletState came from
    stealth_outputs,  \* the rows of the stealth_outputs table
    marked,       \* ids of stored outputs mark_stealth_output_spent succeeded for
    lastStore,    \* the last stealth-output call: arguments, result, table before
    workerCache,  \* scanned_outputs of two worker scanners holding the master key
    scannedBy,    \* per worker, the batch indices it has scanned
    shards        \* the batch indices handed out in shards and the merged results

vars == <<inputs, outputs, fee, metadata, calculated, calls, phase, result,
          tx, changeCount, lateInput, lateOutput, master, stx, scanned, other, scannedOther, batch,
          cacheA, cacheB, ownedA, ownedB, wire, decoded, wtx, wbytes, wback,
          exported, restored, db, wallet, lastCall, origin,
          stealth_outputs, marked, lastStore, workerCache, scannedBy, shards>>

builderVars == <<inputs, outputs, fee, metadata, calculated, calls, phase,
                 result, tx, changeCount, lateInput, lateOutput>>

backupVars == <<exported, restored>>

\* The state outside the builder, the stealth keys, the scanners, the
\* encodings in transit and the transmitted transaction.
walletVars == <<db, wallet, lastCall, origin>>

storeVars == <<stealth_outputs, marked, lastStore>>

shardVars == <<workerCache, scannedBy, shards>>

extVars == <<backupVars, walletVars, storeVars, shardVars>>

stealthVars == <<master, stx, scanned, other, scannedOther, batch, cacheA,
                 cacheB, ownedA, ownedB, wire, decoded, wtx, wbytes, wback,
                 extVars>>

keyVars == <<master, stx, scanned, other, scannedOther>>

wireVars == <<wire, decoded>>

codecVars == <<wtx, wbytes, wback>>

scannerVars == <<batch, cacheA, cacheB, ownedA, ownedB>>

-----------------------------------------------------------------------------
(* Bounds *)

\* Inputs plus outputs a builder holds.
MaxItems == 3

\* Width of the value type, scaled down from 64 bits.
U64Bits == 2

\* Length of a compressed point and of a key seed, scaled down from 32 bytes.
PointBytes == 2

\* Largest byte value the entropy source yields in a seed.
MaxSeedByte == 2

\* Candidate outputs in one scan_transactions batch.
MaxBatch == 3

\* Bytes a received encoding exceeds the expected length by, at most.
MaxExtraBytes == 1

\* Inputs, outputs and range proofs of a transmitted transaction, together.
MaxWireItems == 2

\* Accounts a wallet holds.
MaxAccounts == 3

\* Rows of the stealth_outputs table.
MaxStored == 3

-----------------------------------------------------------------------------
(* Integers and scalars *)

U64Modulus == 2 ^ U64Bits

U64Max == U64Modulus - 1

\* Scaled group order: prime for U64Bits = 2 (29) and U64Bits = 3 (61), and
\* larger than (MaxItems + 2) * U64Modulus, so value sums never wrap in it.
GroupOrder == 2 ^ (U64Bits + 3) - 3

Scalars == 0 .. (GroupOrder - 1)

WrapU64(n) == n % U64Modulus

ScalarAdd(a, b) == (a + b) % GroupOrder

ScalarSub(a, b) == (a - b) % GroupOrder

ScalarMul(a, b) == (a * b) % GroupOrder

\* Scalar::from(u64): a value as a scalar.
ScalarFromU64(v) == v % GroupOrder

ScalarZero == 0

-----------------------------------------------------------------------------
(* Group layer *)

Identity == <<0, 0>>

BasePointG == <<0, 1>>

BasePointH == <<1, 0>>

PointAdd(p, q) == <<ScalarAdd(p[1], q[1]), ScalarAdd(p[2], q[2])>>

PointSub(p, q) == <<ScalarSub(p[1], q[1]), ScalarSub(p[2], q[2])>>

PointMul(k, p) == <<ScalarMul(k, p[1]), ScalarMul(k, p[2])>>

is_identity(p) == p = Identity

-----------------------------------------------------------------------------
(* Byte encodings *)

ByteBase == 2 ^ 8

RECURSIVE LittleEndianValue(_)
\* The integer a little-endian byte string stands for.
LittleEndianValue(bytes) ==
    IF bytes = <<>> THEN 0
    ELSE bytes[1] + ByteBase * LittleEndianValue(Tail(bytes))

RECURSIVE LittleEndianBytes(_, _)
\* The len-byte little-endian encoding of n.
LittleEndianBytes(n, len) ==
    IF len = 0 THEN <<>>
    ELSE <<n % ByteBase>> \o LittleEndianBytes(n \div ByteBase, len - 1)

\* Scalar::from_bytes_mod_order
from_bytes_mod_order(bytes) == LittleEndianValue(bytes) % GroupOrder

\* RistrettoPoint::compress: the canonical PointBytes-byte encoding.
Compress(p) == LittleEndianBytes(p[1] * GroupOrder + p[2], PointBytes)

\* CompressedRistretto::decompress: only the canonical encodings of group
\* elements decompress.
Decompress(bytes) ==
    LET n == LittleEndianValue(bytes)
    IN  IF Len(bytes) = PointBytes /\ n < GroupOrder * GroupOrder
        THEN [some |-> TRUE, point |-> <<n \div GroupOrder, n % GroupOrder>>]
        ELSE [some |-> FALSE, point |-> Identity]

RECURSIVE Digest(_, _)
\* Stand-in for the BLAKE2b-512 digest: a fixed mixing of the bytes.
Digest(data, acc) ==
    IF data = <<>> THEN acc
    ELSE Digest(Tail(data), (acc * 131 + data[1] + 1) % (ByteBase * ByteBase))

\* hash_to_scalar: digest, then Scalar::from_bytes_mod_order_wide.
hash_to_scalar(data) == Digest(data, 7) % GroupOrder

-----------------------------------------------------------------------------
(* Stealth address protocol *)

\* Seeds the entropy source yields: the lowest byte and the highest byte vary,
\* so that some seeds exceed the group order and are reduced.
Seeds ==
    { [i \in 1 .. PointBytes |->
          IF i = 1 THEN low ELSE IF i = PointBytes THEN high ELSE 0]
      : low \in 0 .. MaxSeedByte, high \in 0 .. 1 }

\* StealthMasterKey::generate, on the bytes the RNG filled in.
generate(spend_bytes, view_bytes) ==
    LET spend_private == from_bytes_mod_order(spend_bytes)
        view_private == from_bytes_mod_order(view_bytes)
    IN  [present |-> TRUE,
         spend_private |-> spend_private,
         spend_public |-> PointMul(spend_private, BasePointG),
         view_private |-> view_private,
         view_public |-> PointMul(view_private, BasePointG)]

\* Mutation: the view public key is derived from the spend private key.
from_keys_OneScalar(spend_private, view_private) ==
    [present |-> TRUE,
     spend_private |-> spend_private,
     spend_public |-> PointMul(spend_private, BasePointG),
     view_private |-> view_private,
     view_public |-> PointMul(spend_private, BasePointG)]

\* StealthMasterKey::from_keys
from_keys(spend_private, view_private) ==
    [present |-> TRUE,
     spend_private |-> spend_private,
     spend_public |-> PointMul(spend_private, BasePointG),
     view_private |-> view_private,
     view_public |-> PointMul(view_private, BasePointG)]

\* Scalar::to_bytes: the canonical little-endian encoding.
ScalarToBytes(scalar) == LittleEndianBytes(scalar, PointBytes)

\* StealthMasterKey::export_spend_private
export_spend_private(key) == ScalarToBytes(key.spend_private)

\* StealthMasterKey::export_view_private
export_view_private(key) == ScalarToBytes(key.view_private)

get_stealth_address(key) ==
    [spend_public |-> key.spend_public, view_public |-> key.view_public]

\* Mutation: the shared secret is computed with the spend key.
scan_transaction_SpendKey(key, ephemeral_public, output_public) ==
    LET shared_secret == PointMul(key.spend_private, ephemeral_public)
        hash_scalar == hash_to_scalar(Compress(shared_secret))
        expected_public == PointAdd(PointMul(hash_scalar, BasePointG), key.spend_public)
    IN  IF expected_public = output_public
        THEN [done |-> TRUE, some |-> TRUE,
              value |-> ScalarAdd(hash_scalar, key.spend_private)]
        ELSE [done |-> TRUE, some |-> FALSE, value |-> 0]

scan_transaction(key, ephemeral_public, output_public) ==
    LET shared_secret == PointMul(key.view_private, ephemeral_public)
        hash_scalar == hash_to_scalar(Compress(shared_secret))
        expected_public == PointAdd(PointMul(hash_scalar, BasePointG), key.spend_public)
    IN  IF expected_public = output_public
        THEN [done |-> TRUE, some |-> TRUE,
              value |-> ScalarAdd(hash_scalar, key.spend_private)]
        ELSE [done |-> TRUE, some |-> FALSE, value |-> 0]

\* Mutation: the one-time key leaves out the recipient's spend key.
generate_one_time_address_NoSpend(address, ephemeral_bytes) ==
    LET ephemeral_private == from_bytes_mod_order(ephemeral_bytes)
        ephemeral_public == PointMul(ephemeral_private, BasePointG)
        shared_secret == PointMul(ephemeral_private, address.view_public)
        hash_scalar == hash_to_scalar(Compress(shared_secret))
    IN  [present |-> TRUE,
         ephemeral_public |-> ephemeral_public,
         one_time_public |-> PointMul(hash_scalar, BasePointG),
         ephemeral_private |-> <<ephemeral_private>>]

\* StealthAddress::generate_one_time_address, on the bytes the RNG filled in.
generate_one_time_address(address, ephemeral_bytes) ==
    LET ephemeral_private == from_bytes_mod_order(ephemeral_bytes)
        ephemeral_public == PointMul(ephemeral_private, BasePointG)
        shared_secret == PointMul(ephemeral_private, address.view_public)
        hash_scalar == hash_to_scalar(Compress(shared_secret))
        one_time_public == PointAdd(PointMul(hash_scalar, BasePointG), address.spend_public)
    IN  [present |-> TRUE,
         ephemeral_public |-> ephemeral_public,
         one_time_public |-> one_time_public,
         ephemeral_private |-> <<ephemeral_private>>]

(* Base58 (bs58, Bitcoin alphabet).  A text is a sequence of alphabet     *)
(* indices 0 .. 57 ('1' is index 0); NotBase58 stands for any character   *)
(* outside the alphabet.                                                  *)

Base58Radix == 58

NotBase58 == Base58Radix

RECURSIVE MulAdd(_, _, _, _)
\* One step of the radix conversion: digits (least significant first, radix
\* to) are multiplied by radix from and carry is added.
MulAdd(digits, carry, from, to) ==
    IF digits = <<>>
    THEN IF carry = 0 THEN <<>>
         ELSE <<carry % to>> \o MulAdd(<<>>, carry \div to, from, to)
    ELSE LET c == carry + digits[1] * from
         IN  <<c % to>> \o MulAdd(Tail(digits), c \div to, from, to)

RECURSIVE Convert(_, _, _, _)
\* The digits (least significant first) of the number whose digits, most
\* significant first, are input.
Convert(input, digits, from, to) ==
    IF input = <<>> THEN digits
    ELSE Convert(Tail(input), MulAdd(digits, input[1], from, to), from, to)

RECURSIVE LeadingZeros(_)
LeadingZeros(input) ==
    IF input = <<>> \/ input[1] # 0 THEN 0
    ELSE 1 + LeadingZeros(Tail(input))

Reverse(seq) == [k \in 1 .. Len(seq) |-> seq[Len(seq) + 1 - k]]

\* bs58::encode(bytes).into_string()
Base58Encode(bytes) ==
    Reverse(Convert(bytes, <<>>, ByteBase, Base58Radix)
            \o [k \in 1 .. LeadingZeros(bytes) |-> 0])

\* bs58::decode(text).into_vec()
Base58Decode(text) ==
    IF \E k \in 1 .. Len(text) : text[k] = NotBase58
    THEN [ok |-> FALSE, bytes |-> <<>>]
    ELSE [ok |-> TRUE,
          bytes |-> Reverse(Convert(text, <<>>, Base58Radix, ByteBase)
                            \o [k \in 1 .. LeadingZeros(text) |-> 0])]

\* Length of an encoded pair of points, scaled down from 64.
PairBytes == 2 * PointBytes

\* Mutation: the view key is written first.
to_bytes_ViewFirst(address) ==
    Compress(address.view_public) \o Compress(address.spend_public)

\* StealthAddress::to_bytes
to_bytes(address) ==
    Compress(address.spend_public) \o Compress(address.view_public)

NoAddress == [spend_public |-> Identity, view_public |-> Identity]

\* Mutation: only inputs that are too short are refused.
from_bytes_LongerAccepted(bytes) ==
    IF Len(bytes) < PairBytes
    THEN [ok |-> FALSE, error |-> "Serialization", value |-> NoAddress]
    ELSE LET spend_public == Decompress(SubSeq(bytes, 1, PointBytes))
             view_public == Decompress(SubSeq(bytes, PointBytes + 1, PairBytes))
         IN  IF ~spend_public.some \/ ~view_public.some
             THEN [ok |-> FALSE, error |-> "Serialization", value |-> NoAddress]
             ELSE [ok |-> TRUE, error |-> "",
                   value |-> [spend_public |-> spend_public.point,
                              view_public |-> view_public.point]]

\* StealthAddress::from_bytes
from_bytes(bytes) ==
    IF Len(bytes) # PairBytes
    THEN [ok |-> FALSE, error |-> "Serialization", value |-> NoAddress]
    ELSE LET spend_public == Decompress(SubSeq(bytes, 1, PointBytes))
             view_public == Decompress(SubSeq(bytes, PointBytes + 1, PairBytes))
         IN  IF ~spend_public.some \/ ~view_public.some
             THEN [ok |-> FALSE, error |-> "Serialization", value |-> NoAddress]
             ELSE [ok |-> TRUE, error |-> "",
                   value |-> [spend_public |-> spend_public.point,
                              view_public |-> view_public.point]]

\* StealthAddress::to_base58
to_base58(address) == Base58Encode(to_bytes(address))

\* StealthAddress::from_base58
from_base58(text) ==
    LET bytes == Base58Decode(text)
    IN  IF ~bytes.ok
        THEN [ok |-> FALSE, error |-> "Serialization", value |-> NoAddress]
        ELSE from_bytes(bytes.bytes)

\* StealthTransaction::to_transaction_data
to_transaction_data(t) == Compress(t.ephemeral_public) \o Compress(t.one_time_public)

NoOutput == [ephemeral_public |-> Identity, one_time_public |-> Identity,
             ephemeral_private |-> <<>>]

\* Mutation: both points are read from the first half of the data.
from_transaction_data_FirstHalf(data) ==
    IF Len(data) # PairBytes
    THEN [ok |-> FALSE, error |-> "Serialization", value |-> NoOutput]
    ELSE LET ephemeral_public == Decompress(SubSeq(data, 1, PointBytes))
             one_time_public == Decompress(SubSeq(data, 1, PointBytes))
         IN  IF ~ephemeral_public.some \/ ~one_time_public.some
             THEN [ok |-> FALSE, error |-> "Serialization", value |-> NoOutput]
             ELSE [ok |-> TRUE, error |-> "",
                   value |-> [ephemeral_public |-> ephemeral_public.point,
                              one_time_public |-> one_time_public.point,
                              ephemeral_private |-> <<>>]]

\* StealthTransaction::from_transaction_data
from_transaction_data(data) ==
    IF Len(data) # PairBytes
    THEN [ok |-> FALSE, error |-> "Serialization", value |-> NoOutput]
    ELSE LET ephemeral_public == Decompress(SubSeq(data, 1, PointBytes))
             one_time_public == Decompress(SubSeq(data, PointBytes + 1, PairBytes))
         IN  IF ~ephemeral_public.some \/ ~one_time_public.some
             THEN [ok |-> FALSE, error |-> "Serialization", value |-> NoOutput]
             ELSE [ok |-> TRUE, error |-> "",
                   value |-> [ephemeral_public |-> ephemeral_public.point,
                              one_time_public |-> one_time_public.point,
                              ephemeral_private |-> <<>>]]

\* Mutation: the insert drops the entries the map held.
MapInsert_Replace(map, key, value) == [k \in {key} |-> value]

\* HashMap::insert
MapInsert(map, key, value) ==
    [k \in (DOMAIN map) \cup {key} |-> IF k = key THEN value ELSE map[k]]

EmptyMap == [k \in {} |-> 0]

RECURSIVE ScanFrom(_, _, _, _, _)
\* The loop of scan_transactions from (0-based) index i on.
ScanFrom(key, transactions, i, cache, owned) ==
    IF i >= Len(transactions) THEN [owned |-> owned, cache |-> cache]
    ELSE LET t == transactions[i + 1]
             found == scan_transaction(key, t.ephemeral_public, t.one_time_public)
         IN  IF found.some
             THEN ScanFrom(key, transactions, i + 1,
                           MapInsert(cache, to_transaction_data(t), found.value),
                           Append(owned, <<i, found.value>>))
             ELSE ScanFrom(key, transactions, i + 1, cache, owned)

\* Mutation: the position among the matches is returned instead of the index
\* in the batch.
scan_transactions_MatchRank(key, cache, transactions) ==
    LET r == ScanFrom(key, transactions, 0, cache, <<>>)
    IN  [owned |-> [k \in 1 .. Len(r.owned) |-> <<k - 1, r.owned[k][2]>>],
         cache |-> r.cache]

\* Mutation: an output whose key the cache already holds is not reported.
scan_transactions_SkipCached(key, cache, transactions) ==
    LET r == ScanFrom(key, transactions, 0, cache, <<>>)
        fresh(e) == to_transaction_data(transactions[e[1] + 1]) \notin DOMAIN cache
    IN  [owned |-> SelectSeq(r.owned, fresh), cache |-> r.cache]

\* StealthScanner::scan_transactions
scan_transactions(key, cache, transactions) ==
    ScanFrom(key, transactions, 0, cache, <<>>)

\* StealthScanner::get_private_key
get_private_key(cache, tx_data) ==
    IF tx_data \in DOMAIN cache THEN <<cache[tx_data]>> ELSE <<>>

-----------------------------------------------------------------------------
(* Pedersen commitments and range proofs (commitments module) *)

\* commit(v, r) = v*H + r*G
Commit(v, r) == PointAdd(PointMul(ScalarFromU64(v), BasePointH), PointMul(r, BasePointG))

add_commitments(a, b) == PointAdd(a, b)

subtract_commitments(a, b) == PointSub(a, b)

\* prove(v, r, n): a proof that commit(v, r) opens to a value below 2^n.
\* It fails only for n out of range; verification is against C alone.
RangeProofProve(v, r, n) ==
    IF n < 1 \/ n > U64Bits
    THEN [ok |-> FALSE, proof |-> [commitment |-> Identity, bits |-> 0]]
    ELSE [ok |-> TRUE, proof |-> [commitment |-> Commit(v, r), bits |-> n]]

RangeProofVerify(proof, commitment) == proof.commitment = commitment

-----------------------------------------------------------------------------
(* Transaction builder *)

\* Option<Vec<u8>>
None == [some |-> FALSE, data |-> <<>>]

Some(data) == [some |-> TRUE, data |-> data]

EmptyTx == [inputs |-> <<>>, outputs |-> <<>>, range_proofs |-> <<>>, fee |-> 0,
            metadata |-> None]

NoResult == [kind |-> "none", info |-> <<>>, overflow_checks |-> FALSE]

Values == {0, 1, U64Max}

Blindings == {0, 1}

Fees == {0, 1}

Metadatas == {<<>>, <<1>>}

NotCalculated == [some |-> FALSE, value |-> ScalarZero, before |-> <<>>]

NoCalls == [inputs |-> <<>>, outputs |-> <<>>, fee |-> 0, metadata |-> None]

RECURSIVE SumValues(_)
\* The mathematical sum of the recorded values (no width).
SumValues(items) ==
    IF items = <<>> THEN 0
    ELSE items[1].value + SumValues(Tail(items))

RECURSIVE SumBlindings(_)
\* fold(Scalar::ZERO, |acc, i| acc + i.blinding)
SumBlindings(items) ==
    IF items = <<>> THEN ScalarZero
    ELSE ScalarAdd(items[1].blinding, SumBlindings(Tail(items)))

\* Mutation: the operands of the subtraction are exchanged.
calculate_change_blinding_Exchanged(ins, outs) ==
    ScalarSub(SumBlindings(outs), SumBlindings(ins))

\* Mutation: the output blindings are added instead of subtracted.
calculate_change_blinding_Added(ins, outs) ==
    ScalarAdd(SumBlindings(ins), SumBlindings(outs))

calculate_change_blinding(ins, outs) ==
    ScalarSub(SumBlindings(ins), SumBlindings(outs))

BuilderItem(v, r) == [value |-> v, blinding |-> r, commitment |-> Commit(v, r)]

add_input(ins, v, r) == Append(ins, BuilderItem(v, r))

add_output_with_blinding(outs, v, r) == Append(outs, BuilderItem(v, r))

TransactionInput(i) == [commitment |-> i.commitment, signature |-> <<>>]

TransactionOutput(o) == [commitment |-> o.commitment]

BuiltInputs(ins) == [k \in 1 .. Len(ins) |-> TransactionInput(ins[k])]

BuiltOutputs(outs) == [k \in 1 .. Len(outs) |-> TransactionOutput(outs[k])]

BuiltProofs(outs) ==
    [k \in 1 .. Len(outs) |-> RangeProofProve(outs[k].value, outs[k].blinding, U64Bits).proof]

ProofsOk(outs) ==
    \A k \in 1 .. Len(outs) : RangeProofProve(outs[k].value, outs[k].blinding, U64Bits).ok

\* A u64 addition overflows somewhere in build(): in either sum or in
\* total_output + fee.
BuildOverflows(ins, outs, f) ==
    \/ SumValues(ins) > U64Max
    \/ SumValues(outs) > U64Max
    \/ SumValues(outs) + f > U64Max

\* Mutation: the metadata is not copied into the transaction.
build_NoMetadata(ins, outs, f, md, overflow_checks) ==
    LET total_input == WrapU64(SumValues(ins))
        total_output == WrapU64(SumValues(outs))
    IN  IF overflow_checks /\ BuildOverflows(ins, outs, f)
        THEN [kind |-> "panic", info |-> <<>>, tx |-> EmptyTx]
        ELSE IF total_input # WrapU64(total_output + f)
        THEN [kind |-> "InvalidParameter",
              info |-> <<total_input, total_output, f>>, tx |-> EmptyTx]
        ELSE IF ~ProofsOk(outs)
        THEN [kind |-> "Commitment", info |-> <<>>, tx |-> EmptyTx]
        ELSE [kind |-> "Ok", info |-> <<>>,
              tx |-> [inputs |-> BuiltInputs(ins),
                      outputs |-> BuiltOutputs(outs),
                      range_proofs |-> BuiltProofs(outs),
                      fee |-> f,
                      metadata |-> None]]

\* build(): overflow_checks is the build profile (checked arithmetic panics
\* on overflow, unchecked arithmetic wraps).
build(ins, outs, f, md, overflow_checks) ==
    LET total_input == WrapU64(SumValues(ins))
        total_output == WrapU64(SumValues(outs))
    IN  IF overflow_checks /\ BuildOverflows(ins, outs, f)
        THEN [kind |-> "panic", info |-> <<>>, tx |-> EmptyTx]
        ELSE IF total_input # WrapU64(total_output + f)
        THEN [kind |-> "InvalidParameter",
              info |-> <<total_input, total_output, f>>, tx |-> EmptyTx]
        ELSE IF ~ProofsOk(outs)
        THEN [kind |-> "Commitment", info |-> <<>>, tx |-> EmptyTx]
        ELSE [kind |-> "Ok", info |-> <<>>,
              tx |-> [inputs |-> BuiltInputs(ins),
                      outputs |-> BuiltOutputs(outs),
                      range_proofs |-> BuiltProofs(outs),
                      fee |-> f,
                      metadata |-> md]]

-----------------------------------------------------------------------------
(* Transaction verifier *)

RECURSIVE SumCommitments(_, _)
\* result = add_commitments(result, c) for each c, starting from acc
SumCommitments(acc, cs) ==
    IF cs = <<>> THEN acc
    ELSE SumCommitments(add_commitments(acc, cs[1]), Tail(cs))

RECURSIVE SubtractCommitments(_, _)
\* result = subtract_commitments(result, c) for each c, starting from acc
SubtractCommitments(acc, cs) ==
    IF cs = <<>> THEN acc
    ELSE SubtractCommitments(subtract_commitments(acc, cs[1]), Tail(cs))

\* Mutation: the fee commitment is left out of the right-hand side.
verify_balance_NoFee(t) ==
    LET input_commitments == [k \in 1 .. Len(t.inputs) |-> t.inputs[k].commitment]
        output_commitments == [k \in 1 .. Len(t.outputs) |-> t.outputs[k].commitment]
    IN  IF input_commitments = <<>> \/ output_commitments = <<>>
        THEN FALSE
        ELSE is_identity(
                SubtractCommitments(
                    SumCommitments(input_commitments[1], Tail(input_commitments)),
                    output_commitments))

verify_balance(t) ==
    LET input_commitments == [k \in 1 .. Len(t.inputs) |-> t.inputs[k].commitment]
        fee_commitment == Commit(t.fee, ScalarZero)
        output_commitments ==
            Append([k \in 1 .. Len(t.outputs) |-> t.outputs[k].commitment],
                   fee_commitment)
    IN  IF input_commitments = <<>> \/ output_commitments = <<>>
        THEN FALSE
        ELSE is_identity(
                SubtractCommitments(
                    SumCommitments(input_commitments[1], Tail(input_commitments)),
                    output_commitments))

RECURSIVE VerifyProofsFrom(_, _)
\* The loop over range_proofs.iter().enumerate(), from (1-based) index i.
VerifyProofsFrom(t, i) ==
    IF i > Len(t.range_proofs) THEN "Ok(true)"
    ELSE IF i > Len(t.outputs) THEN "Err(InvalidParameter)"
    ELSE IF ~RangeProofVerify(t.range_proofs[i], t.outputs[i].commitment)
    THEN "Ok(false)"
    ELSE VerifyProofsFrom(t, i + 1)

\* Mutation: a proof that does not verify is skipped.
verify_SkipBadProof(t) ==
    IF ~verify_balance(t) THEN "Ok(false)"
    ELSE IF Len(t.range_proofs) > Len(t.outputs) THEN "Err(InvalidParameter)"
    ELSE "Ok(true)"

\* Mutation: an input without a signature is refused.
verify_NeedsSignature(t) ==
    IF \E k \in 1 .. Len(t.inputs) : t.inputs[k].signature = <<>>
    THEN "Ok(false)"
    ELSE IF ~verify_balance(t) THEN "Ok(false)"
    ELSE VerifyProofsFrom(t, 1)

verify(t) ==
    IF ~verify_balance(t) THEN "Ok(false)"
    ELSE VerifyProofsFrom(t, 1)

-----------------------------------------------------------------------------
(* PrivateTransaction wire form: bincode with fixed-width little-endian   *)
(* integers, u64 sequence lengths and a one-byte Option tag.              *)

U64Bytes == 8

U32Bytes == 4

EncodeU64(n) == LittleEndianBytes(n, U64Bytes)

EncodeU32(n) == LittleEndianBytes(n, U32Bytes)

\* Vec<u8>: length, then the bytes.
EncodeVecU8(bytes) == EncodeU64(Len(bytes)) \o bytes

\* Option<Vec<u8>>: tag 0, or tag 1 and the value.
EncodeOption(opt) ==
    IF opt.some THEN <<1>> \o EncodeVecU8(opt.data) ELSE <<0>>

\* Commitment: the compressed point.
EncodeCommitment(commitment) == Compress(commitment)

EncodeRangeProof(proof) == EncodeCommitment(proof.commitment) \o EncodeU64(proof.bits)

EncodeInput(input) ==
    input.prev_tx_hash \o EncodeU32(input.prev_output_index)
        \o EncodeCommitment(input.commitment) \o EncodeVecU8(input.signature)

EncodeOutput(output) ==
    EncodeVecU8(output.address) \o EncodeCommitment(output.commitment)
        \o EncodeOption(output.encrypted_amount)

EncodeItem(kind, item) ==
    IF kind = "input" THEN EncodeInput(item)
    ELSE IF kind = "output" THEN EncodeOutput(item)
    ELSE EncodeRangeProof(item)

RECURSIVE EncodeItems(_, _)
EncodeItems(kind, items) ==
    IF items = <<>> THEN <<>>
    ELSE EncodeItem(kind, items[1]) \o EncodeItems(kind, Tail(items))

\* Vec<T>: length, then the items.
EncodeVec(kind, items) == EncodeU64(Len(items)) \o EncodeItems(kind, items)

\* Mutation: the outputs are written before the inputs.
PrivateTransaction_to_bytes_OutputsFirst(t) ==
    [ok |-> TRUE,
     bytes |-> EncodeVec("output", t.outputs) \o EncodeVec("input", t.inputs)
                  \o EncodeVec("proof", t.range_proofs) \o EncodeU64(t.fee)
                  \o EncodeOption(t.metadata)]

\* PrivateTransaction::to_bytes
PrivateTransaction_to_bytes(t) ==
    [ok |-> TRUE,
     bytes |-> EncodeVec("input", t.inputs) \o EncodeVec("output", t.outputs)
                  \o EncodeVec("proof", t.range_proofs) \o EncodeU64(t.fee)
                  \o EncodeOption(t.metadata)]

\* A reader returns [ok, value, rest]: the value read and the bytes left.
ReadFailed == [ok |-> FALSE, value |-> <<>>, rest |-> <<>>]

ReadBytes(bytes, n) ==
    IF Len(bytes) < n THEN ReadFailed
    ELSE [ok |-> TRUE, value |-> SubSeq(bytes, 1, n),
          rest |-> SubSeq(bytes, n + 1, Len(bytes))]

ReadInt(bytes, width) ==
    IF Len(bytes) < width THEN ReadFailed
    ELSE [ok |-> TRUE, value |-> LittleEndianValue(SubSeq(bytes, 1, width)),
          rest |-> SubSeq(bytes, width + 1, Len(bytes))]

ReadVecU8(bytes) ==
    LET n == ReadInt(bytes, U64Bytes)
    IN  IF ~n.ok THEN ReadFailed ELSE ReadBytes(n.rest, n.value)

ReadOption(bytes) ==
    IF bytes = <<>> THEN ReadFailed
    ELSE IF bytes[1] = 0
    THEN [ok |-> TRUE, value |-> None, rest |-> Tail(bytes)]
    ELSE IF bytes[1] = 1
    THEN LET data == ReadVecU8(Tail(bytes))
         IN  IF ~data.ok THEN ReadFailed
             ELSE [ok |-> TRUE, value |-> Some(data.value), rest |-> data.rest]
    ELSE ReadFailed

ReadCommitment(bytes) ==
    IF Len(bytes) < PointBytes THEN ReadFailed
    ELSE IF ~Decompress(SubSeq(bytes, 1, PointBytes)).some THEN ReadFailed
    ELSE [ok |-> TRUE, value |-> Decompress(SubSeq(bytes, 1, PointBytes)).point,
          rest |-> SubSeq(bytes, PointBytes + 1, Len(bytes))]

\* The fields of each struct, in declaration order, with their types.
FieldsOf(kind) ==
    IF kind = "input" THEN <<"hash", "u32", "commitment", "bytes">>
    ELSE IF kind = "output" THEN <<"bytes", "commitment", "option">>
    ELSE IF kind = "proof" THEN <<"commitment", "u64">>
    ELSE <<"inputs", "outputs", "proofs", "u64", "option">>

\* The struct of a kind with the field values read.
StructOf(kind, values) ==
    IF kind = "input"
    THEN [prev_tx_hash |-> values[1], prev_output_index |-> values[2],
          commitment |-> values[3], signature |-> values[4]]
    ELSE IF kind = "output"
    THEN [address |-> values[1], commitment |-> values[2],
          encrypted_amount |-> values[3]]
    ELSE IF kind = "proof"
    THEN [commitment |-> values[1], bits |-> values[2]]
    ELSE [inputs |-> values[1], outputs |-> values[2],
          range_proofs |-> values[3], fee |-> values[4], metadata |-> values[5]]

RECURSIVE ReadField(_, _)
RECURSIVE ReadFields(_, _, _)
\* The fields of a struct, one after the other.
ReadFields(types, bytes, values) ==
    IF types = <<>> THEN [ok |-> TRUE, value |-> values, rest |-> bytes]
    ELSE LET field == ReadField(types[1], bytes)
         IN  IF ~field.ok THEN ReadFailed
             ELSE ReadFields(Tail(types), field.rest, Append(values, field.value))

ReadStruct(kind, bytes) ==
    LET fields == ReadFields(FieldsOf(kind), bytes, <<>>)
    IN  IF ~fields.ok THEN ReadFailed
        ELSE [ok |-> TRUE, value |-> StructOf(kind, fields.value),
              rest |-> fields.rest]

RECURSIVE ReadItems(_, _, _, _)
ReadItems(kind, bytes, n, items) ==
    IF n = 0 THEN [ok |-> TRUE, value |-> items, rest |-> bytes]
    ELSE LET item == ReadStruct(kind, bytes)
         IN  IF ~item.ok THEN ReadFailed
             ELSE ReadItems(kind, item.rest, n - 1, Append(items, item.value))

\* Vec<T>: length, then the items.
ReadVec(kind, bytes) ==
    LET n == ReadInt(bytes, U64Bytes)
    IN  IF ~n.ok THEN ReadFailed ELSE ReadItems(kind, n.rest, n.value, <<>>)

ReadField(type, bytes) ==
    IF type = "u64" THEN ReadInt(bytes, U64Bytes)
    ELSE IF type = "u32" THEN ReadInt(bytes, U32Bytes)
    ELSE IF type = "hash" THEN ReadBytes(bytes, PointBytes)
    ELSE IF type = "bytes" THEN ReadVecU8(bytes)
    ELSE IF type = "option" THEN ReadOption(bytes)
    ELSE IF type = "commitment" THEN ReadCommitment(bytes)
    ELSE IF type = "inputs" THEN ReadVec("input", bytes)
    ELSE IF type = "outputs" THEN ReadVec("output", bytes)
    ELSE ReadVec("proof", bytes)

\* PrivateTransaction::from_bytes
PrivateTransaction_from_bytes(bytes) ==
    LET t == ReadStruct("transaction", bytes)
    IN  IF ~t.ok
        THEN [ok |-> FALSE, error |-> "Serialization", value |-> EmptyTx]
        ELSE [ok |-> TRUE, error |-> "", value |-> t.value]

-----------------------------------------------------------------------------
(* Wallet database (storage/encrypted_db.rs) and WalletState              *)
(* (wallet_state.rs).  A mnemonic is a byte string.                       *)

\* hex::encode: two digits per byte, the high one first.
HexEncode(bytes) ==
    [k \in 1 .. 2 * Len(bytes) |->
        IF k % 2 = 1 THEN bytes[(k + 1) \div 2] \div 16 ELSE bytes[k \div 2] % 16]

\* Stand-in for Sha256::digest: two bytes of the mixing digest.
Sha256(data) == LittleEndianBytes(Digest(data, 11), 2)

\* WalletState::hash_mnemonic
hash_mnemonic(mnemonic) == HexEncode(Sha256(mnemonic))

ValidMnemonics == {<<1>>, <<2>>}

Mnemonics == ValidMnemonics \cup {<<0>>}

\* KeyManager::new_from_mnemonic succeeds on a valid mnemonic.
new_from_mnemonic(mnemonic) == mnemonic \in ValidMnemonics

\* KeyManager::derive_account: the account of an index, with its default name.
derive_account(index) == [index |-> index, name |-> "Account"]

\* A database file on which only the schema was created.
EmptyDb == [meta |-> [k \in {} |-> <<>>], accounts |-> <<>>, last_id |-> 0]

NoWallet == [live |-> FALSE, accounts |-> <<>>, current_account_index |-> 0,
             mnemonic |-> <<>>]

\* EncryptedDb::set_metadata: INSERT OR REPLACE
set_metadata(d, key, value) == [d EXCEPT !.meta = MapInsert(@, key, value)]

\* EncryptedDb::get_metadata
get_metadata(d, key) ==
    IF key \in DOMAIN d.meta THEN [some |-> TRUE, value |-> d.meta[key]]
    ELSE [some |-> FALSE, value |-> <<>>]

\* EncryptedDb::store_account: the INSERT fails when the write fails or when
\* account_index is taken (UNIQUE); the id is AUTOINCREMENT.
store_account(d, account, io_fails) ==
    IF io_fails \/ \E k \in 1 .. Len(d.accounts) : d.accounts[k].index = account.index
    THEN [ok |-> FALSE, db |-> d]
    ELSE [ok |-> TRUE,
          db |-> [d EXCEPT !.accounts =
                               Append(@, [id |-> d.last_id + 1,
                                          index |-> account.index,
                                          name |-> account.name]),
                           !.last_id = @ + 1]]

\* EncryptedDb::get_all_accounts: ORDER BY account_index
get_all_accounts(d) ==
    LET rows == {d.accounts[k] : k \in 1 .. Len(d.accounts)}
    IN  [k \in 1 .. Len(d.accounts) |->
            CHOOSE row \in rows :
                Cardinality({r \in rows : r.index < row.index}) = k - 1]

\* WalletState::new_wallet
new_wallet(d, mnemonic, io_fails) ==
    IF ~new_from_mnemonic(mnemonic)
    THEN [kind |-> "InvalidMnemonic", db |-> d, wallet |-> NoWallet]
    ELSE LET d1 == set_metadata(
                       set_metadata(set_metadata(d, "wallet_version", "1.0.0"),
                                    "created_at", "now"),
                       "mnemonic_hash", hash_mnemonic(mnemonic))
             account == derive_account(0)
             stored == store_account(d1, account, io_fails)
         IN  IF ~stored.ok
             THEN [kind |-> "Storage", db |-> d1, wallet |-> NoWallet]
             ELSE [kind |-> "Ok", db |-> stored.db,
                   wallet |-> [live |-> TRUE, accounts |-> <<account>>,
                               current_account_index |-> 0,
                               mnemonic |-> mnemonic]]

\* Mutation: the stored hash is not compared with the supplied mnemonic's.
open_wallet_NoHashCheck(d, mnemonic) ==
    LET stored_hash == get_metadata(d, "mnemonic_hash")
    IN  IF ~stored_hash.some
        THEN [kind |-> "Storage", wallet |-> NoWallet]
        ELSE IF ~new_from_mnemonic(mnemonic)
        THEN [kind |-> "InvalidMnemonic", wallet |-> NoWallet]
        ELSE LET stored_accounts == get_all_accounts(d)
                 accounts == [k \in 1 .. Len(stored_accounts) |->
                                 derive_account(stored_accounts[k].index)]
             IN  [kind |-> "Ok",
                  wallet |-> [live |-> TRUE, accounts |-> accounts,
                              current_account_index |->
                                  IF accounts = <<>> THEN 0 ELSE accounts[1].index,
                              mnemonic |-> mnemonic]]

\* WalletState::open_wallet
open_wallet(d, mnemonic) ==
    LET stored_hash == get_metadata(d, "mnemonic_hash")
    IN  IF ~stored_hash.some
        THEN [kind |-> "Storage", wallet |-> NoWallet]
        ELSE IF stored_hash.value # hash_mnemonic(mnemonic)
        THEN [kind |-> "InvalidMnemonic", wallet |-> NoWallet]
        ELSE IF ~new_from_mnemonic(mnemonic)
        THEN [kind |-> "InvalidMnemonic", wallet |-> NoWallet]
        ELSE LET stored_accounts == get_all_accounts(d)
                 accounts == [k \in 1 .. Len(stored_accounts) |->
                                 derive_account(stored_accounts[k].index)]
             IN  [kind |-> "Ok",
                  wallet |-> [live |-> TRUE, accounts |-> accounts,
                              current_account_index |->
                                  IF accounts = <<>> THEN 0 ELSE accounts[1].index,
                              mnemonic |-> mnemonic]]

\* WalletState::add_account; name is None or Some(custom_name).
add_account(w, d, name, io_fails) ==
    LET next_index == Len(w.accounts)
        derived == derive_account(next_index)
        account == IF name.some THEN [derived EXCEPT !.name = name.data]
                   ELSE derived
        stored == store_account(d, account, io_fails)
    IN  IF ~stored.ok
        THEN [kind |-> "Storage", db |-> d, wallet |-> w]
        ELSE [kind |-> "Ok", db |-> stored.db,
              wallet |-> [w EXCEPT !.accounts = Append(@, account)]]

\* WalletState::current_account
current_account(w) ==
    IF \E k \in 1 .. Len(w.accounts) : w.accounts[k].index = w.current_account_index
    THEN [kind |-> "Ok",
          account |-> w.accounts[CHOOSE k \in 1 .. Len(w.accounts) :
                                    /\ w.accounts[k].index = w.current_account_index
                                    /\ \A j \in 1 .. (k - 1) :
                                          w.accounts[j].index # w.current_account_index]]
    ELSE [kind |-> "InvalidParameter", account |-> derive_account(0)]

\* Mutation: the index is not looked up in the account list.
switch_account_Unchecked(w, index) ==
    [kind |-> "Ok", wallet |-> [w EXCEPT !.current_account_index = index]]

\* Mutation: the index one past the last account is accepted too.
switch_account_OnePast(w, index) ==
    IF ~\E k \in 1 .. Len(w.accounts) + 1 : k - 1 = index
    THEN [kind |-> "InvalidParameter", wallet |-> w]
    ELSE [kind |-> "Ok", wallet |-> [w EXCEPT !.current_account_index = index]]

\* WalletState::switch_account
switch_account(w, index) ==
    IF ~\E k \in 1 .. Len(w.accounts) : w.accounts[k].index = index
    THEN [kind |-> "InvalidParameter", wallet |-> w]
    ELSE [kind |-> "Ok", wallet |-> [w EXCEPT !.current_account_index = index]]

-----------------------------------------------------------------------------
(* The stealth_outputs table (storage/encrypted_db.rs).  A row keeps the  *)
(* columns the operations read: id, account_id, spent, created_at.        *)

AccountIds == {1, 2}

\* Readings of the system clock, in seconds.
Timestamps == {0, 1}

NoShards == [assigned |-> {}, merged |-> {}]

NoStoreCall == [op |-> "none", arg |-> 0, returned |-> <<>>, before |-> <<>>]

\* EncryptedDb::store_stealth_output: INSERT with an AUTOINCREMENT id; the
\* spent flag is stored as given.  No row is ever deleted, so the next id is
\* the row count plus one.
store_stealth_output(table, output, timestamp) ==
    LET id == Len(table) + 1
    IN  [id |-> id,
         table |-> Append(table, [id |-> id, account_id |-> output.account_id,
                                  spent |-> output.spent,
                                  created_at |-> timestamp])]

\* Mutation: the UPDATE has no WHERE clause.
mark_stealth_output_spent_AllRows(table, output_id) ==
    [k \in 1 .. Len(table) |-> [table[k] EXCEPT !.spent = TRUE]]

\* EncryptedDb::mark_stealth_output_spent: UPDATE ... SET spent = 1 WHERE id;
\* Ok also when no row has the id.
mark_stealth_output_spent(table, output_id) ==
    [k \in 1 .. Len(table) |->
        IF table[k].id = output_id THEN [table[k] EXCEPT !.spent = TRUE]
        ELSE table[k]]

\* The rows the query of get_unspent_stealth_outputs selects.
UnspentRows(table, account_id) ==
    {table[k] : k \in { j \in 1 .. Len(table) :
                          table[j].account_id = account_id /\ ~table[j].spent }}

\* EncryptedDb::get_unspent_stealth_outputs: the selected rows ORDER BY
\* created_at DESC; rows of one timestamp come in an order SQLite chooses.
get_unspent_stealth_outputs(table, account_id) ==
    LET rows == UnspentRows(table, account_id)
    IN  { res \in [1 .. Cardinality(rows) -> rows] :
            /\ \A i, j \in DOMAIN res : i < j => res[i] # res[j]
            /\ \A i, j \in DOMAIN res :
                  i < j => res[i].created_at >= res[j].created_at }

-----------------------------------------------------------------------------
(* Initial state *)

NoKey == [present |-> FALSE, spend_private |-> 0, spend_public |-> Identity,
          view_private |-> 0, view_public |-> Identity]

NoStx == [present |-> FALSE, ephemeral_public |-> Identity,
          one_time_public |-> Identity, ephemeral_private |-> <<>>]

NotScanned == [done |-> FALSE, some |-> FALSE, value |-> 0]

NotOwned == [done |-> FALSE, owned |-> <<>>]

NoCall == [op |-> "none", kind |-> "none", arg |-> <<>>,
           before |-> [db |-> EmptyDb, wallet |-> NoWallet]]

NotExported == [some |-> FALSE, spend_bytes |-> <<>>, view_bytes |-> <<>>]

NoBytes == [some |-> FALSE, ok |-> FALSE, bytes |-> <<>>]

NotRead == [some |-> FALSE, ok |-> FALSE, error |-> "", value |-> EmptyTx]

NoWire == [kind |-> "none", origin |-> "none", data |-> <<>>]

NotDecoded == [by |-> "none", result |-> [ok |-> FALSE, error |-> "", value |-> <<>>]]

InitBuilder ==
    /\ inputs = <<>>
    /\ outputs = <<>>
    /\ fee = 0
    /\ metadata = None
    /\ calculated = NotCalculated
    /\ calls = NoCalls
    /\ phase = "building"
    /\ result = NoResult
    /\ tx = EmptyTx
    /\ changeCount = 0
    /\ lateInput = FALSE
    /\ lateOutput = FALSE

InitStealth ==
    /\ master = NoKey
    /\ stx = NoStx
    /\ scanned = NotScanned
    /\ other = NoKey
    /\ scannedOther = NotScanned
    /\ batch = <<>>
    /\ cacheA = EmptyMap
    /\ cacheB = EmptyMap
    /\ ownedA = NotOwned
    /\ ownedB = NotOwned
    /\ wire = NoWire
    /\ decoded = NotDecoded
    /\ wtx = EmptyTx
    /\ wbytes = NoBytes
    /\ wback = NotRead
    /\ exported = NotExported
    /\ restored = NoKey
    /\ db = EmptyDb
    /\ wallet = NoWallet
    /\ lastCall = NoCall
    /\ origin = "none"
    /\ stealth_outputs = <<>>
    /\ marked = {}
    /\ lastStore = NoStoreCall
    /\ workerCache = <<EmptyMap, EmptyMap>>
    /\ scannedBy = <<{}, {}>>
    /\ shards = NoShards

Init == InitBuilder /\ InitStealth

-----------------------------------------------------------------------------
(* Builder actions *)

AddInput ==
    /\ phase = "building"
    /\ Len(inputs) + Len(outputs) < MaxItems
    /\ \E v \in Values, r \in Blindings :
          /\ inputs' = add_input(inputs, v, r)
          /\ calls' = [calls EXCEPT !.inputs = Append(@, <<v, r>>)]
    /\ lateInput' = (lateInput \/ changeCount > 0)
    /\ calculated' = NotCalculated
    /\ UNCHANGED <<outputs, fee, metadata, phase, result, tx, changeCount,
                   lateOutput>>
    /\ UNCHANGED stealthVars

\* add_output: the blinding is random_scalar().
AddOutput ==
    /\ phase = "building"
    /\ Len(inputs) + Len(outputs) < MaxItems
    /\ \E v \in Values, r \in Blindings :
          /\ outputs' = add_output_with_blinding(outputs, v, r)
          /\ calls' = [calls EXCEPT !.outputs = Append(@, <<v, r>>)]
    /\ lateOutput' = (lateOutput \/ changeCount > 0)
    /\ calculated' = NotCalculated
    /\ UNCHANGED <<inputs, fee, metadata, phase, result, tx, changeCount,
                   lateInput>>
    /\ UNCHANGED stealthVars

\* The caller installs an output whose blinding is calculate_change_blinding()
\* of the builder as it stands.
AddChangeOutput ==
    /\ phase = "building"
    /\ Len(inputs) + Len(outputs) < MaxItems
    /\ \E v \in Values :
          LET r == calculate_change_blinding(inputs, outputs)
          IN  /\ outputs' = add_output_with_blinding(outputs, v, r)
              /\ calls' = [calls EXCEPT !.outputs = Append(@, <<v, r>>)]
    /\ changeCount' = changeCount + 1
    /\ lateOutput' = (lateOutput \/ changeCount > 0)
    /\ calculated' = NotCalculated
    /\ UNCHANGED <<inputs, fee, metadata, phase, result, tx, lateInput>>
    /\ UNCHANGED stealthVars

SetFee ==
    /\ phase = "building"
    /\ \E f \in Fees :
          /\ fee' = f
          /\ calls' = [calls EXCEPT !.fee = f]
    /\ calculated' = NotCalculated
    /\ UNCHANGED <<inputs, outputs, metadata, phase, result, tx, changeCount,
                   lateInput, lateOutput>>
    /\ UNCHANGED stealthVars

SetMetadata ==
    /\ phase = "building"
    /\ \E data \in Metadatas :
          /\ metadata' = Some(data)
          /\ calls' = [calls EXCEPT !.metadata = Some(data)]
    /\ calculated' = NotCalculated
    /\ UNCHANGED <<inputs, outputs, fee, phase, result, tx, changeCount,
                   lateInput, lateOutput>>
    /\ UNCHANGED stealthVars

\* calculate_change_blinding(&self): the caller keeps the scalar returned,
\* together with the builder it was computed on.
CalculateChangeBlinding ==
    /\ phase = "building"
    /\ calculated' = [some |-> TRUE,
                      value |-> calculate_change_blinding(inputs, outputs),
                      before |-> <<inputs, outputs, fee, metadata>>]
    /\ UNCHANGED <<inputs, outputs, fee, metadata, calls, phase, result, tx,
                   changeCount, lateInput, lateOutput>>
    /\ UNCHANGED stealthVars

Build ==
    /\ phase = "building"
    /\ \E overflow_checks \in BOOLEAN :
          LET b == build(inputs, outputs, fee, metadata, overflow_checks)
          IN  /\ result' = [kind |-> b.kind, info |-> b.info,
                             overflow_checks |-> overflow_checks]
              /\ tx' = b.tx
    /\ phase' = "built"
    /\ calculated' = NotCalculated
    /\ UNCHANGED <<inputs, outputs, fee, metadata, calls, changeCount,
                   lateInput, lateOutput>>
    /\ UNCHANGED stealthVars

\* A PrivateTransaction written as a struct literal from the same openings
\* (all fields are pub): no value check is made.
HandAssemble ==
    /\ phase = "building"
    /\ ProofsOk(outputs)
    /\ result' = [kind |-> "Assembled", info |-> <<>>, overflow_checks |-> FALSE]
    /\ tx' = [inputs |-> BuiltInputs(inputs),
              outputs |-> BuiltOutputs(outputs),
              range_proofs |-> BuiltProofs(outputs),
              fee |-> fee,
              metadata |-> metadata]
    /\ phase' = "built"
    /\ calculated' = NotCalculated
    /\ UNCHANGED <<inputs, outputs, fee, metadata, calls, changeCount,
                   lateInput, lateOutput>>
    /\ UNCHANGED stealthVars

-----------------------------------------------------------------------------
(* The holder of a transaction edits its public fields *)

HasTx ==
    /\ phase \in {"built", "detached", "edited"}
    /\ result.kind \in {"Ok", "Assembled"}

\* The transaction leaves the builder: the builder is dropped.
Detach ==
    /\ inputs' = <<>>
    /\ outputs' = <<>>
    /\ fee' = 0
    /\ metadata' = None
    /\ calls' = NoCalls
    /\ changeCount' = 0
    /\ lateInput' = FALSE
    /\ lateOutput' = FALSE
    /\ UNCHANGED <<result, calculated>>

\* tx.range_proofs.pop()
DropRangeProof ==
    /\ HasTx
    /\ phase # "edited"
    /\ Len(tx.range_proofs) > 0
    /\ Len(tx.range_proofs) <= Len(tx.outputs)
    /\ tx' = [tx EXCEPT !.range_proofs = SubSeq(@, 1, Len(@) - 1)]
    /\ phase' = "detached"
    /\ Detach
    /\ UNCHANGED stealthVars

\* tx.range_proofs.push(RangeProof::prove(v, r, 64)?)
PushRangeProof ==
    /\ HasTx
    /\ phase # "edited"
    /\ Len(tx.range_proofs) = Len(tx.outputs)
    /\ \E v \in Values, r \in Blindings :
          /\ RangeProofProve(v, r, U64Bits).ok
          /\ tx' = [tx EXCEPT !.range_proofs =
                        Append(@, RangeProofProve(v, r, U64Bits).proof)]
    /\ phase' = "detached"
    /\ Detach
    /\ UNCHANGED stealthVars

\* tx.range_proofs[i] = RangeProof::prove(v, r, 64)?
ReplaceRangeProof ==
    /\ phase = "built"
    /\ result.kind = "Ok"
    /\ Len(tx.range_proofs) = Len(tx.outputs)
    /\ \E i \in 1 .. Len(tx.range_proofs), v \in Values, r \in Blindings :
          /\ RangeProofProve(v, r, U64Bits).ok
          /\ tx' = [tx EXCEPT !.range_proofs[i] = RangeProofProve(v, r, U64Bits).proof]
    /\ phase' = "edited"
    /\ Detach
    /\ UNCHANGED stealthVars

\* tx.outputs.swap(i, j)
SwapOutputs ==
    /\ phase = "built"
    /\ result.kind = "Ok"
    /\ Len(tx.range_proofs) = Len(tx.outputs)
    /\ \E i \in 1 .. Len(tx.outputs), j \in 1 .. Len(tx.outputs) :
          /\ i < j
          /\ tx' = [tx EXCEPT !.outputs[i] = tx.outputs[j],
                              !.outputs[j] = tx.outputs[i]]
    /\ phase' = "edited"
    /\ Detach
    /\ UNCHANGED stealthVars

Next ==
    \/ AddInput
    \/ AddOutput
    \/ AddChangeOutput
    \/ SetFee
    \/ SetMetadata
    \/ CalculateChangeBlinding
    \/ Build
    \/ HandAssemble
    \/ DropRangeProof
    \/ PushRangeProof
    \/ ReplaceRangeProof
    \/ SwapOutputs

Spec == Init /\ [][Next]_vars

-----------------------------------------------------------------------------
(* Stealth actions *)

\* The wallet exists before anything is received from outside.
Generate ==
    /\ ~master.present
    /\ wire.origin # "foreign"
    /\ \E spend_bytes \in Seeds, view_bytes \in Seeds :
          master' = generate(spend_bytes, view_bytes)
    /\ UNCHANGED <<stx, scanned, other, scannedOther>>
    /\ UNCHANGED scannerVars
    /\ UNCHANGED builderVars
    /\ UNCHANGED codecVars
    /\ UNCHANGED extVars
    /\ UNCHANGED wireVars

\* A second wallet generates its own master key.
GenerateOther ==
    /\ master.present
    /\ ~other.present
    /\ ~stx.present
    /\ \E spend_bytes \in Seeds, view_bytes \in Seeds :
          other' = generate(spend_bytes, view_bytes)
    /\ UNCHANGED <<master, stx, scanned, scannedOther>>
    /\ UNCHANGED scannerVars
    /\ UNCHANGED builderVars
    /\ UNCHANGED codecVars
    /\ UNCHANGED extVars
    /\ UNCHANGED wireVars

\* The sender builds a one-time output for the recipient's stealth address.
GenerateOneTimeAddress ==
    /\ master.present
    /\ ~stx.present
    /\ \E ephemeral_bytes \in Seeds :
          stx' = generate_one_time_address(get_stealth_address(master), ephemeral_bytes)
    /\ UNCHANGED <<master, scanned, other, scannedOther>>
    /\ UNCHANGED scannerVars
    /\ UNCHANGED builderVars
    /\ UNCHANGED codecVars
    /\ UNCHANGED extVars
    /\ UNCHANGED wireVars

\* The recipient scans the output.
ScanTransaction ==
    /\ master.present
    /\ stx.present
    /\ ~scanned.done
    /\ scanned' = scan_transaction(master, stx.ephemeral_public, stx.one_time_public)
    /\ UNCHANGED <<master, stx, other, scannedOther>>
    /\ UNCHANGED scannerVars
    /\ UNCHANGED builderVars
    /\ UNCHANGED codecVars
    /\ UNCHANGED extVars
    /\ UNCHANGED wireVars

\* The second wallet scans the same output.
ScanOther ==
    /\ other.present
    /\ stx.present
    /\ ~scannedOther.done
    /\ scannedOther' = scan_transaction(other, stx.ephemeral_public, stx.one_time_public)
    /\ UNCHANGED <<master, stx, scanned, other>>
    /\ UNCHANGED scannerVars
    /\ UNCHANGED builderVars
    /\ UNCHANGED codecVars
    /\ UNCHANGED extVars
    /\ UNCHANGED wireVars

NextStealth ==
    \/ Generate
    \/ GenerateOther
    \/ GenerateOneTimeAddress
    \/ ScanTransaction
    \/ ScanOther

SpecStealth == Init /\ [][NextStealth]_vars

-----------------------------------------------------------------------------
(* Key backup and restoration *)

\* Scalars handed to from_keys: the lowest, the highest and two in between.
KeyScalars == {0, 1, 2, GroupOrder - 1}

\* A wallet is created from scalars the caller holds.
FromKeys ==
    /\ ~master.present
    /\ \E spend_private \in KeyScalars, view_private \in KeyScalars :
          master' = from_keys(spend_private, view_private)
    /\ UNCHANGED <<stx, scanned, other, scannedOther>>
    /\ UNCHANGED <<scannerVars, builderVars, wireVars, codecVars, extVars>>

\* export_spend_private and export_view_private, for backup.
ExportKeys ==
    /\ master.present
    /\ ~exported.some
    /\ exported' = [some |-> TRUE,
                    spend_bytes |-> export_spend_private(master),
                    view_bytes |-> export_view_private(master)]
    /\ UNCHANGED restored
    /\ UNCHANGED <<keyVars, scannerVars, builderVars, wireVars, codecVars, walletVars,
                   storeVars, shardVars>>

\* The backup is read back with Scalar::from_bytes_mod_order and handed to
\* from_keys.
RestoreKeys ==
    /\ exported.some
    /\ ~restored.present
    /\ restored' = from_keys(from_bytes_mod_order(exported.spend_bytes),
                             from_bytes_mod_order(exported.view_bytes))
    /\ UNCHANGED exported
    /\ UNCHANGED <<keyVars, scannerVars, builderVars, wireVars, codecVars, walletVars,
                   storeVars, shardVars>>

NextKeys ==
    \/ Generate
    \/ FromKeys
    \/ ExportKeys
    \/ RestoreKeys

SpecKeys == Init /\ [][NextKeys]_vars

-----------------------------------------------------------------------------
(* Wallet actions.  One WalletState is live at a time on the one db_path. *)

Called(op, kind, arg) ==
    [op |-> op, kind |-> kind, arg |-> arg,
     before |-> [db |-> db, wallet |-> wallet]]

NewWallet ==
    /\ ~wallet.live
    /\ \E mnemonic \in Mnemonics, io_fails \in BOOLEAN :
          LET r == new_wallet(db, mnemonic, io_fails)
          IN  /\ db' = r.db
              /\ wallet' = r.wallet
              /\ lastCall' = Called("new_wallet", r.kind, mnemonic)
              /\ origin' = IF r.kind = "Ok" THEN "new_wallet" ELSE "none"
    /\ UNCHANGED <<backupVars, storeVars, shardVars>>
    /\ UNCHANGED <<keyVars, scannerVars, builderVars, wireVars, codecVars>>

OpenWallet ==
    /\ ~wallet.live
    /\ \E mnemonic \in Mnemonics :
          LET r == open_wallet(db, mnemonic)
          IN  /\ wallet' = r.wallet
              /\ lastCall' = Called("open_wallet", r.kind, mnemonic)
              /\ origin' = IF r.kind = "Ok" THEN "open_wallet" ELSE "none"
    /\ UNCHANGED db
    /\ UNCHANGED <<backupVars, storeVars, shardVars>>
    /\ UNCHANGED <<keyVars, scannerVars, builderVars, wireVars, codecVars>>

\* The WalletState is dropped.
CloseWallet ==
    /\ wallet.live
    /\ wallet' = NoWallet
    /\ lastCall' = Called("drop", "Ok", <<>>)
    /\ origin' = "none"
    /\ UNCHANGED db
    /\ UNCHANGED <<backupVars, storeVars, shardVars>>
    /\ UNCHANGED <<keyVars, scannerVars, builderVars, wireVars, codecVars>>

AddAccount ==
    /\ wallet.live
    /\ Len(wallet.accounts) < MaxAccounts
    /\ \E name \in {None, Some("Savings")}, io_fails \in BOOLEAN :
          LET r == add_account(wallet, db, name, io_fails)
          IN  /\ db' = r.db
              /\ wallet' = r.wallet
              /\ lastCall' = Called("add_account", r.kind, name)
    /\ UNCHANGED origin
    /\ UNCHANGED <<backupVars, storeVars, shardVars>>
    /\ UNCHANGED <<keyVars, scannerVars, builderVars, wireVars, codecVars>>

SwitchAccount ==
    /\ wallet.live
    /\ \E index \in 0 .. MaxAccounts :
          LET r == switch_account(wallet, index)
          IN  /\ wallet' = r.wallet
              /\ lastCall' = Called("switch_account", r.kind, index)
    /\ UNCHANGED origin
    /\ UNCHANGED db
    /\ UNCHANGED <<backupVars, storeVars, shardVars>>
    /\ UNCHANGED <<keyVars, scannerVars, builderVars, wireVars, codecVars>>

NextWallet ==
    \/ NewWallet
    \/ OpenWallet
    \/ CloseWallet
    \/ AddAccount
    \/ SwitchAccount

SpecWallet == Init /\ [][NextWallet]_vars

-----------------------------------------------------------------------------
(* Stealth-output store actions *)

StoreStealthOutput ==
    /\ Len(stealth_outputs) < MaxStored
    /\ \E account_id \in AccountIds, spent \in BOOLEAN, timestamp \in Timestamps :
          LET r == store_stealth_output(
                       stealth_outputs,
                       [account_id |-> account_id, spent |-> spent], timestamp)
          IN  /\ stealth_outputs' = r.table
              /\ lastStore' = [op |-> "store_stealth_output", arg |-> account_id,
                               returned |-> <<r.id>>, before |-> stealth_outputs]
    /\ UNCHANGED marked
    /\ UNCHANGED <<backupVars, walletVars, shardVars>>
    /\ UNCHANGED <<keyVars, scannerVars, builderVars, wireVars, codecVars>>

MarkStealthOutputSpent ==
    /\ \E output_id \in 1 .. (MaxStored + 1) :
          /\ stealth_outputs' = mark_stealth_output_spent(stealth_outputs, output_id)
          /\ marked' = IF output_id <= Len(stealth_outputs)
                       THEN marked \cup {output_id} ELSE marked
          /\ lastStore' = [op |-> "mark_stealth_output_spent", arg |-> output_id,
                           returned |-> <<>>, before |-> stealth_outputs]
    /\ UNCHANGED <<backupVars, walletVars, shardVars>>
    /\ UNCHANGED <<keyVars, scannerVars, builderVars, wireVars, codecVars>>

GetUnspentStealthOutputs ==
    /\ \E account_id \in AccountIds :
          \E res \in get_unspent_stealth_outputs(stealth_outputs, account_id) :
              lastStore' = [op |-> "get_unspent_stealth_outputs",
                           arg |-> account_id, returned |-> res,
                           before |-> stealth_outputs]
    /\ UNCHANGED <<stealth_outputs, marked>>
    /\ UNCHANGED <<backupVars, walletVars, shardVars>>
    /\ UNCHANGED <<keyVars, scannerVars, builderVars, wireVars, codecVars>>

NextStore ==
    \/ StoreStealthOutput
    \/ MarkStealthOutputSpent
    \/ GetUnspentStealthOutputs

SpecStore == Init /\ [][NextStore]_vars

-----------------------------------------------------------------------------
(* Scanner actions *)

\* Scalars of restored wallets.
RestoreScalars == {1, 2}

\* Ephemeral seeds of the senders of a batch: zero and one.
BatchSeeds == {seed \in Seeds : seed[1] <= 1 /\ seed[PointBytes] = 0}

\* Two wallets are restored with from_keys and a StealthScanner::new is
\* built on each.
NewScanners ==
    /\ ~master.present
    /\ \E s1 \in RestoreScalars, v1 \in RestoreScalars,
          s2 \in RestoreScalars, v2 \in RestoreScalars :
          /\ master' = from_keys(s1, v1)
          /\ other' = from_keys(s2, v2)
    /\ cacheA' = EmptyMap
    /\ cacheB' = EmptyMap
    /\ UNCHANGED <<stx, scanned, scannedOther, batch, ownedA, ownedB>>
    /\ UNCHANGED builderVars
    /\ UNCHANGED codecVars
    /\ UNCHANGED extVars
    /\ UNCHANGED wireVars

\* A sender adds a one-time output for one of the two wallets to the batch.
PushCandidate ==
    /\ master.present
    /\ ~ownedA.done /\ ~ownedB.done
    /\ Len(batch) < MaxBatch
    /\ \E to \in {"A", "B"}, ephemeral_bytes \in BatchSeeds :
          LET key == IF to = "A" THEN master ELSE other
              t == generate_one_time_address(get_stealth_address(key), ephemeral_bytes)
          IN  batch' = Append(batch, [to |-> to,
                                      ephemeral_public |-> t.ephemeral_public,
                                      one_time_public |-> t.one_time_public])
    /\ UNCHANGED <<master, stx, scanned, other, scannedOther, cacheA, cacheB,
                   ownedA, ownedB>>
    /\ UNCHANGED builderVars
    /\ UNCHANGED codecVars
    /\ UNCHANGED extVars
    /\ UNCHANGED wireVars

ScanBatchA ==
    /\ master.present
    /\ ~ownedA.done
    /\ LET r == scan_transactions(master, cacheA, batch)
       IN  /\ ownedA' = [done |-> TRUE, owned |-> r.owned]
           /\ cacheA' = r.cache
    /\ UNCHANGED <<master, stx, scanned, other, scannedOther, batch, cacheB, ownedB>>
    /\ UNCHANGED builderVars
    /\ UNCHANGED codecVars
    /\ UNCHANGED extVars
    /\ UNCHANGED wireVars

ScanBatchB ==
    /\ other.present
    /\ ~ownedB.done
    /\ LET r == scan_transactions(other, cacheB, batch)
       IN  /\ ownedB' = [done |-> TRUE, owned |-> r.owned]
           /\ cacheB' = r.cache
    /\ UNCHANGED <<master, stx, scanned, other, scannedOther, batch, cacheA, ownedA>>
    /\ UNCHANGED builderVars
    /\ UNCHANGED codecVars
    /\ UNCHANGED extVars
    /\ UNCHANGED wireVars

NextScanner ==
    \/ NewScanners
    \/ PushCandidate
    \/ ScanBatchA
    \/ ScanBatchB

SpecScanner == Init /\ [][NextScanner]_vars

-----------------------------------------------------------------------------
(* Sharded scanning: a caller splits the batch among worker scanners that *)
(* hold the same master key and merges what they return.                  *)

Workers == {1, 2}

\* The elements of a set of indices, ascending.
Ascending(set) ==
    [k \in 1 .. Cardinality(set) |->
        CHOOSE i \in set : Cardinality({j \in set : j < i}) = k - 1]

\* A sequence, reversed.
Reversed(seq) == [k \in 1 .. Len(seq) |-> seq[Len(seq) + 1 - k]]

\* The outputs of the batch at the (0-based) indices, in that order.
ShardOf(indices) == [k \in 1 .. Len(indices) |-> batch[indices[k] + 1]]

\* The pairs of a shard's result, with the shard's positions mapped back to
\* indices of the batch.
WithOffsets(owned, indices) ==
    {<<indices[owned[k][1] + 1], owned[k][2]>> : k \in 1 .. Len(owned)}

\* Two wallets are restored with from_keys, with the same keys or with spend
\* and view scalars exchanged; the workers' scanners are built with
\* StealthScanner::new on the first.
NewWorkers ==
    /\ ~master.present
    /\ \E s \in RestoreScalars :
          /\ master' = from_keys(s, 1)
          /\ other' = from_keys(1, s)
    /\ cacheA' = EmptyMap
    /\ workerCache' = <<EmptyMap, EmptyMap>>
    /\ UNCHANGED <<scannedBy, shards>>
    /\ UNCHANGED <<stx, scanned, scannedOther, batch, cacheB, ownedA, ownedB>>
    /\ UNCHANGED <<backupVars, walletVars, storeVars>>
    /\ UNCHANGED <<builderVars, wireVars, codecVars>>

\* A worker scans a shard: outputs not handed out before, in ascending or
\* descending order of index; its result is merged.  The first shard goes to
\* worker 1.
ScanShard ==
    /\ ownedA.done
    /\ \E w \in Workers, descending \in BOOLEAN :
       \E set \in (SUBSET ((0 .. (Len(batch) - 1)) \ shards.assigned)) \ {{}} :
          /\ shards.assigned = {} => w = 1
          /\ descending => Cardinality(set) > 1
          /\ LET indices == IF descending THEN Reversed(Ascending(set))
                            ELSE Ascending(set)
                 r == scan_transactions(master, workerCache[w], ShardOf(indices))
             IN  /\ workerCache' = [workerCache EXCEPT ![w] = r.cache]
                 /\ scannedBy' = [scannedBy EXCEPT ![w] = @ \cup set]
                 /\ shards' = [assigned |-> shards.assigned \cup set,
                               merged |-> shards.merged
                                             \cup WithOffsets(r.owned, indices)]
    /\ UNCHANGED <<keyVars, scannerVars>>
    /\ UNCHANGED <<backupVars, walletVars, storeVars>>
    /\ UNCHANGED <<builderVars, wireVars, codecVars>>

\* Worker 1 scans the whole batch, outputs it scanned before included; the
\* result is not merged.
Rescan ==
    /\ ownedA.done
    /\ scannedBy[1] # 0 .. (Len(batch) - 1)
    /\ LET r == scan_transactions(master, workerCache[1], batch)
       IN  workerCache' = [workerCache EXCEPT ![1] = r.cache]
    /\ scannedBy' = [scannedBy EXCEPT ![1] = 0 .. (Len(batch) - 1)]
    /\ UNCHANGED shards
    /\ UNCHANGED <<keyVars, scannerVars>>
    /\ UNCHANGED <<backupVars, walletVars, storeVars>>
    /\ UNCHANGED <<builderVars, wireVars, codecVars>>

NextShards ==
    \/ NewWorkers
    \/ PushCandidate
    \/ ScanBatchA
    \/ ScanShard
    \/ Rescan

SpecShards == Init /\ [][NextShards]_vars

-----------------------------------------------------------------------------
(* Encodings in transit *)

\* Byte values of received data: the lowest and the highest.
ForeignByteValues == {0, ByteBase - 1}

RECURSIVE SeqsOver(_, _)
\* The sequences over set of length len.
SeqsOver(set, len) ==
    IF len = 0 THEN {<<>>}
    ELSE {<<x>> \o rest : x \in set, rest \in SeqsOver(set, len - 1)}

\* Received bytes: every length up to MaxExtraBytes above the expected one.
ForeignBytes ==
    UNION {SeqsOver(ForeignByteValues, len) : len \in 0 .. (PairBytes + MaxExtraBytes)}

\* Received texts: the base58 of received bytes, as it is or with a
\* character outside the alphabet put in front or behind.
ForeignTexts ==
    UNION {{Base58Encode(bytes),
            <<NotBase58>> \o Base58Encode(bytes),
            Base58Encode(bytes) \o <<NotBase58>>} : bytes \in ForeignBytes}

AddressToBytes ==
    /\ master.present
    /\ wire' = [kind |-> "bytes", origin |-> "address",
                data |-> to_bytes(get_stealth_address(master))]
    /\ decoded' = NotDecoded
    /\ UNCHANGED <<master, stx, scanned, other, scannedOther>>
    /\ UNCHANGED scannerVars
    /\ UNCHANGED builderVars
    /\ UNCHANGED codecVars
    /\ UNCHANGED extVars

AddressToBase58 ==
    /\ master.present
    /\ wire' = [kind |-> "text", origin |-> "address",
                data |-> to_base58(get_stealth_address(master))]
    /\ decoded' = NotDecoded
    /\ UNCHANGED <<master, stx, scanned, other, scannedOther>>
    /\ UNCHANGED scannerVars
    /\ UNCHANGED builderVars
    /\ UNCHANGED codecVars
    /\ UNCHANGED extVars

ToTransactionData ==
    /\ stx.present
    /\ wire' = [kind |-> "bytes", origin |-> "output",
                data |-> to_transaction_data(stx)]
    /\ decoded' = NotDecoded
    /\ UNCHANGED <<master, stx, scanned, other, scannedOther>>
    /\ UNCHANGED scannerVars
    /\ UNCHANGED builderVars
    /\ UNCHANGED codecVars
    /\ UNCHANGED extVars

\* Bytes arrive from outside.
ReceiveBytes ==
    /\ ~master.present
    /\ wire = NoWire
    /\ \E bytes \in ForeignBytes :
          wire' = [kind |-> "bytes", origin |-> "foreign", data |-> bytes]
    /\ decoded' = NotDecoded
    /\ UNCHANGED <<master, stx, scanned, other, scannedOther>>
    /\ UNCHANGED scannerVars
    /\ UNCHANGED builderVars
    /\ UNCHANGED codecVars
    /\ UNCHANGED extVars

\* A text arrives from outside.
ReceiveText ==
    /\ ~master.present
    /\ wire = NoWire
    /\ \E text \in ForeignTexts :
          wire' = [kind |-> "text", origin |-> "foreign", data |-> text]
    /\ decoded' = NotDecoded
    /\ UNCHANGED <<master, stx, scanned, other, scannedOther>>
    /\ UNCHANGED scannerVars
    /\ UNCHANGED builderVars
    /\ UNCHANGED codecVars
    /\ UNCHANGED extVars

AddressFromBytes ==
    /\ wire.kind = "bytes"
    /\ decoded' = [by |-> "from_bytes", result |-> from_bytes(wire.data)]
    /\ UNCHANGED <<master, stx, scanned, other, scannedOther, wire>>
    /\ UNCHANGED scannerVars
    /\ UNCHANGED builderVars
    /\ UNCHANGED codecVars
    /\ UNCHANGED extVars

AddressFromBase58 ==
    /\ wire.kind = "text"
    /\ decoded' = [by |-> "from_base58", result |-> from_base58(wire.data)]
    /\ UNCHANGED <<master, stx, scanned, other, scannedOther, wire>>
    /\ UNCHANGED scannerVars
    /\ UNCHANGED builderVars
    /\ UNCHANGED codecVars
    /\ UNCHANGED extVars

FromTransactionData ==
    /\ wire.kind = "bytes"
    /\ decoded' = [by |-> "from_transaction_data",
                   result |-> from_transaction_data(wire.data)]
    /\ UNCHANGED <<master, stx, scanned, other, scannedOther, wire>>
    /\ UNCHANGED scannerVars
    /\ UNCHANGED builderVars
    /\ UNCHANGED codecVars
    /\ UNCHANGED extVars

NextWire ==
    \/ Generate
    \/ GenerateOneTimeAddress
    \/ AddressToBytes
    \/ AddressToBase58
    \/ ToTransactionData
    \/ ReceiveBytes
    \/ ReceiveText
    \/ AddressFromBytes
    \/ AddressFromBase58
    \/ FromTransactionData

SpecWire == Init /\ [][NextWire]_vars

-----------------------------------------------------------------------------
(* A transaction is written as a struct literal, sent and read back *)

WireHashes == {[i \in 1 .. PointBytes |-> 0], [i \in 1 .. PointBytes |-> ByteBase - 1]}

WireCommitments == {Commit(0, 0), Commit(1, 1)}

WireInputs ==
    {[prev_tx_hash |-> h, prev_output_index |-> n, commitment |-> c,
      signature |-> sig] :
        h \in WireHashes, n \in {0, ByteBase}, c \in WireCommitments,
        sig \in {<<>>, <<7>>}}

WireOutputs ==
    {[address |-> a, commitment |-> c, encrypted_amount |-> e] :
        a \in {<<>>, <<1, 0>>}, c \in WireCommitments,
        e \in {None, Some(<<>>), Some(<<0>>)}}

WireProofs == {RangeProofProve(0, 0, U64Bits).proof, RangeProofProve(1, 1, U64Bits).proof}

WireItems(t) == Len(t.inputs) + Len(t.outputs) + Len(t.range_proofs)

PushInput ==
    /\ ~wbytes.some
    /\ WireItems(wtx) < MaxWireItems
    /\ \E input \in WireInputs : wtx' = [wtx EXCEPT !.inputs = Append(@, input)]
    /\ UNCHANGED <<wbytes, wback>>
    /\ UNCHANGED <<keyVars, scannerVars, wireVars, builderVars, extVars>>

PushOutput ==
    /\ ~wbytes.some
    /\ WireItems(wtx) < MaxWireItems
    /\ \E output \in WireOutputs : wtx' = [wtx EXCEPT !.outputs = Append(@, output)]
    /\ UNCHANGED <<wbytes, wback>>
    /\ UNCHANGED <<keyVars, scannerVars, wireVars, builderVars, extVars>>

PushProof ==
    /\ ~wbytes.some
    /\ WireItems(wtx) < MaxWireItems
    /\ \E proof \in WireProofs :
          wtx' = [wtx EXCEPT !.range_proofs = Append(@, proof)]
    /\ UNCHANGED <<wbytes, wback>>
    /\ UNCHANGED <<keyVars, scannerVars, wireVars, builderVars, extVars>>

AssignFee ==
    /\ ~wbytes.some
    /\ \E f \in Fees : wtx' = [wtx EXCEPT !.fee = f]
    /\ UNCHANGED <<wbytes, wback>>
    /\ UNCHANGED <<keyVars, scannerVars, wireVars, builderVars, extVars>>

AssignMetadata ==
    /\ ~wbytes.some
    /\ \E data \in Metadatas : wtx' = [wtx EXCEPT !.metadata = Some(data)]
    /\ UNCHANGED <<wbytes, wback>>
    /\ UNCHANGED <<keyVars, scannerVars, wireVars, builderVars, extVars>>

Serialize ==
    /\ ~wbytes.some
    /\ LET r == PrivateTransaction_to_bytes(wtx)
       IN  wbytes' = [some |-> TRUE, ok |-> r.ok, bytes |-> r.bytes]
    /\ UNCHANGED <<wtx, wback>>
    /\ UNCHANGED <<keyVars, scannerVars, wireVars, builderVars, extVars>>

Deserialize ==
    /\ wbytes.some /\ wbytes.ok
    /\ ~wback.some
    /\ LET r == PrivateTransaction_from_bytes(wbytes.bytes)
       IN  wback' = [some |-> TRUE, ok |-> r.ok, error |-> r.error,
                     value |-> r.value]
    /\ UNCHANGED <<wtx, wbytes>>
    /\ UNCHANGED <<keyVars, scannerVars, wireVars, builderVars, extVars>>

NextCodec ==
    \/ PushInput
    \/ PushOutput
    \/ PushProof
    \/ AssignFee
    \/ AssignMetadata
    \/ Serialize
    \/ Deserialize

SpecCodec == Init /\ [][NextCodec]_vars

-----------------------------------------------------------------------------
(* Properties of the builder and the verifier *)

\* build() has returned (or aborted) for the builder still in scope.
BuildReturned == phase = "built" /\ result.kind # "Assembled"

\* sum(input values) = sum(output values) + fee, in the integers.
ValuesBalance == SumValues(inputs) = SumValues(outputs) + fee

BlindingsBalance == SumBlindings(inputs) = SumBlindings(outputs)

\* C1 as stated: values balance and exactly one output carries
\* calculate_change_blinding(), computed after all other outputs were added;
\* then build() succeeds and verify() returns Ok(true).
C1_BalanceClosureAsStated ==
    (BuildReturned /\ ValuesBalance /\ changeCount = 1 /\ ~lateOutput)
        => (result.kind = "Ok" /\ verify(tx) = "Ok(true)")

\* C1 amended: with at least one input, and the change blinding computed
\* after all inputs and all other outputs were added, build() never returns
\* Err: it returns Ok(tx) with tx.verify() = Ok(true), except that a build
\* with overflow checks aborts when a u64 sum overflows.
C1_BalanceClosure ==
    (BuildReturned /\ ValuesBalance /\ changeCount = 1 /\ ~lateOutput
        /\ ~lateInput /\ Len(inputs) >= 1)
        => IF result.overflow_checks /\ BuildOverflows(inputs, outputs, fee)
           THEN result.kind = "panic"
           ELSE result.kind = "Ok" /\ verify(tx) = "Ok(true)"

\* A send with change: one input, a random-blinded output, then the change
\* output, a fee, built and verified.
C1_Witness ==
    /\ BuildReturned /\ ValuesBalance /\ changeCount = 1
    /\ ~lateOutput /\ ~lateInput
    /\ Len(inputs) = 1 /\ Len(outputs) = 2 /\ fee = 1
    /\ outputs[1].blinding = 1
    /\ result.kind = "Ok" /\ verify(tx) = "Ok(true)"

\* C2 as stated: whenever a u64 sum in build() exceeds u64::MAX, build()
\* returns Err(InvalidParameter) and emits no transaction.
C2_OverflowRejected ==
    (BuildReturned /\ BuildOverflows(inputs, outputs, fee))
        => (result.kind = "InvalidParameter" /\ tx = EmptyTx)

\* C3 as stated: build() returns Ok only if the values balance; otherwise it
\* returns Err(InvalidParameter) carrying the input sum, the output sum and
\* the fee, and produces no transaction.
C3_UnbalancedRejected ==
    BuildReturned =>
        /\ (result.kind = "Ok" => ValuesBalance)
        /\ (~ValuesBalance =>
                /\ result.kind = "InvalidParameter"
                /\ result.info = <<SumValues(inputs), SumValues(outputs), fee>>
                /\ tx = EmptyTx)

\* C4 as stated: verify() returns Ok(true) only if every output index has a
\* range proof that verifies against that output's commitment.
C4_EveryOutputRangeProved ==
    (HasTx /\ verify(tx) = "Ok(true)")
        => \A i \in 1 .. Len(tx.outputs) :
              /\ i <= Len(tx.range_proofs)
              /\ RangeProofVerify(tx.range_proofs[i], tx.outputs[i].commitment)

\* C5 as stated: a transaction with strictly fewer range proofs than outputs
\* makes verify() fail with Err(InvalidParameter).
C5_MissingProofsAreStructural ==
    (HasTx /\ Len(tx.range_proofs) < Len(tx.outputs))
        => verify(tx) = "Err(InvalidParameter)"

\* C6 as stated: a transaction with more range proofs than outputs makes
\* verify() return Err(InvalidParameter), whether or not the commitments
\* balance or the leading proofs verify.
C6_ExtraProofsAreStructural ==
    (HasTx /\ Len(tx.range_proofs) > Len(tx.outputs))
        => verify(tx) = "Err(InvalidParameter)"

\* C7 as stated: a transaction with no inputs or no outputs never balances,
\* so verify() does not return Ok(true).
C7_EmptySidesNeverBalance ==
    (HasTx /\ (tx.inputs = <<>> \/ tx.outputs = <<>>))
        => (~verify_balance(tx) /\ verify(tx) # "Ok(true)")

\* C8: for a transaction with at least one input and one output whose
\* commitments open to the builder's (value, blinding) pairs, verify_balance
\* is true exactly when the values balance and the blinding sums agree modulo
\* the group order (the fee being committed with blinding 0).
C8_BalanceEquivalence ==
    (HasTx /\ phase = "built" /\ Len(inputs) >= 1 /\ Len(outputs) >= 1)
        => (verify_balance(tx) <=> (ValuesBalance /\ BlindingsBalance))

\* A balanced transaction with a non-zero fee and non-zero blindings.
C8_Witness ==
    /\ HasTx /\ phase = "built"
    /\ Len(inputs) >= 1 /\ Len(outputs) >= 1
    /\ fee = 1 /\ inputs[1].blinding = 1
    /\ verify_balance(tx)

\* C9 as stated: build() leaves every recorded blinding and commitment as it
\* was and copies the commitments unchanged; when the values balance but the
\* blinding sums differ, build() still succeeds and verify() returns Ok(false).
C9_NoAutoCorrection ==
    BuildReturned =>
        /\ \A k \in 1 .. Len(inputs) :
              inputs[k].commitment = Commit(inputs[k].value, inputs[k].blinding)
        /\ \A k \in 1 .. Len(outputs) :
              outputs[k].commitment = Commit(outputs[k].value, outputs[k].blinding)
        /\ (result.kind = "Ok" =>
                /\ tx.inputs = BuiltInputs(inputs)
                /\ tx.outputs = BuiltOutputs(outputs))
        /\ ((ValuesBalance /\ ~BlindingsBalance) =>
                (result.kind = "Ok" /\ verify(tx) = "Ok(false)"))

-----------------------------------------------------------------------------
(* Properties of the stealth address protocol *)

\* The scalar h the recipient derives for the output: H_s(compress(v*R)).
RecipientHash ==
    hash_to_scalar(Compress(PointMul(master.view_private, stx.ephemeral_public)))

\* C10: the output (R, P) generated on K's stealth address is recognised by
\* K.scan_transaction(R, P), which returns Some(p) with p = h + s and
\* p*G = P.
C10_ScanCorrectness ==
    scanned.done =>
        /\ scanned.some
        /\ scanned.value = ScalarAdd(RecipientHash, master.spend_private)
        /\ PointMul(scanned.value, BasePointG) = stx.one_time_public

\* A recognised output for distinct non-trivial spend and view keys, a
\* seed that was reduced modulo the order, and a non-zero hash.
C10_Witness ==
    /\ scanned.done /\ scanned.some
    /\ master.spend_private > 1
    /\ master.view_private > 1
    /\ master.spend_private # master.view_private
    /\ stx.ephemeral_private[1] > MaxSeedByte
    /\ RecipientHash # 0
    /\ PointMul(scanned.value, BasePointG) = stx.one_time_public

\* The two wallets hold different key material.
DistinctKeys ==
    \/ other.spend_private # master.spend_private
    \/ other.view_private # master.view_private

\* The scalar h' the second wallet derives for the output: H_s(compress(v'*R)).
OtherHash ==
    hash_to_scalar(Compress(PointMul(other.view_private, stx.ephemeral_public)))

\* C11 as stated: for any two distinct master keys K and K', K' scanning an
\* output generated for K's stealth address gets None.
C11_ScanSoundnessAsStated ==
    (scannedOther.done /\ DistinctKeys) => ~scannedOther.some

\* C11 amended: K' scanning an output generated for K never fails; it gets
\* Some(p') exactly when h' + s' = h + s modulo the group order, and then
\* p'*G = P; otherwise it gets None.  In particular a key with K's view key
\* and a different spend key gets None.
C11_ScanSoundness ==
    scannedOther.done =>
        /\ scannedOther.some <=>
              (ScalarAdd(OtherHash, other.spend_private)
                  = ScalarAdd(RecipientHash, master.spend_private))
        /\ scannedOther.some =>
              PointMul(scannedOther.value, BasePointG) = stx.one_time_public
        /\ (other.view_private = master.view_private
              /\ other.spend_private # master.spend_private) => ~scannedOther.some

\* A wallet with another view key and another spend key scans K's output
\* (non-zero ephemeral scalar) and gets None.
C11_Witness ==
    /\ scannedOther.done /\ ~scannedOther.some
    /\ other.view_private # master.view_private
    /\ other.spend_private # master.spend_private
    /\ stx.ephemeral_private[1] > 1
    /\ master.view_private > 1

\* C13 as stated: once generate_one_time_address has returned (R, P), the
\* ephemeral scalar r is held nowhere, in particular not in the returned
\* StealthTransaction.
C13_EphemeralSecretErased ==
    stx.present => stx.ephemeral_private = <<>>

\* The indices (0-based) of the batch a key's scan_transaction recognises.
Matching(key) ==
    { i \in 0 .. (Len(batch) - 1) :
        scan_transaction(key, batch[i + 1].ephemeral_public,
                         batch[i + 1].one_time_public).some }

\* The indices a scan_transactions result lists, in the order listed.
Indices(res) == [k \in 1 .. Len(res.owned) |-> res.owned[k][1]]

\* A result lists exactly the matching indices, strictly ascending, each with
\* a scalar p such that p*G is that output's one-time key.
ExactResult(res, key) ==
    /\ {res.owned[k][1] : k \in 1 .. Len(res.owned)} = Matching(key)
    /\ \A k \in 1 .. (Len(res.owned) - 1) : res.owned[k][1] < res.owned[k + 1][1]
    /\ \A k \in 1 .. Len(res.owned) :
          PointMul(res.owned[k][2], BasePointG)
              = batch[res.owned[k][1] + 1].one_time_public

\* The batch is [A.one_time(), B.one_time(), A.one_time()].
MixedBatch ==
    /\ Len(batch) = 3
    /\ batch[1].to = "A" /\ batch[2].to = "B" /\ batch[3].to = "A"

\* C12 as stated: scan_transactions returns exactly the matching indices in
\* ascending order with their scalars, and in a mixed batch [A, B, A] of two
\* distinct wallets the scanner for A returns [0, 2] and the one for B [1].
C12_BatchScanAsStated ==
    /\ ownedA.done => ExactResult(ownedA, master)
    /\ ownedB.done => ExactResult(ownedB, other)
    /\ (MixedBatch /\ DistinctKeys /\ ownedA.done) => Indices(ownedA) = <<0, 2>>
    /\ (MixedBatch /\ DistinctKeys /\ ownedB.done) => Indices(ownedB) = <<1>>

\* C12 amended: scan_transactions returns exactly the matching indices in
\* ascending order with their scalars; in a mixed batch [A, B, A] the result
\* for A contains 0 and 2 and the result for B contains 1, and they are
\* exactly [0, 2] and [1] when neither key recognises an output generated for
\* the other.
C12_BatchScan ==
    /\ ownedA.done => ExactResult(ownedA, master)
    /\ ownedB.done => ExactResult(ownedB, other)
    /\ (MixedBatch /\ ownedA.done) =>
          /\ {0, 2} \subseteq Matching(master)
          /\ (1 \notin Matching(master)) => Indices(ownedA) = <<0, 2>>
    /\ (MixedBatch /\ ownedB.done) =>
          /\ 1 \in Matching(other)
          /\ (Matching(other) = {1}) => Indices(ownedB) = <<1>>

\* The seed scenario: both scanners ran over [A, B, A] and returned [0, 2]
\* and [1].
C12_Witness ==
    /\ MixedBatch /\ DistinctKeys
    /\ ownedA.done /\ ownedB.done
    /\ Indices(ownedA) = <<0, 2>>
    /\ Indices(ownedB) = <<1>>
    /\ batch[1].ephemeral_public # Identity

\* Some range proof of the transaction was generated for a commitment other
\* than that of the output at its index.
ForeignProof(t) ==
    \E i \in 1 .. Len(t.range_proofs) :
        /\ i <= Len(t.outputs)
        /\ t.range_proofs[i].commitment # t.outputs[i].commitment

\* C14: a transaction with as many range proofs as outputs, in which some
\* range_proofs[i] was generated for a commitment different from
\* outputs[i].commitment, is answered Ok(false) by verify().
C14_ProofBoundToIndex ==
    (HasTx /\ Len(tx.range_proofs) = Len(tx.outputs) /\ ForeignProof(tx))
        => verify(tx) = "Ok(false)"

\* A built transaction that balances, edited so that it carries a foreign
\* proof: only the proof loop can reject it.
C14_Witness ==
    /\ phase = "edited"
    /\ result.kind = "Ok"
    /\ Len(tx.range_proofs) = Len(tx.outputs)
    /\ ForeignProof(tx)
    /\ verify_balance(tx)
    /\ verify(tx) = "Ok(false)"

\* The commitments to the openings passed to the builder, in call order.
CommitmentsOf(args) == [k \in 1 .. Len(args) |-> Commit(args[k][1], args[k][2])]

\* C15: whenever build() succeeds, the transaction has one input per
\* add_input call and one output per added output, in insertion order, one
\* range proof per output, generated from the opening of that output, the
\* fee last set (0 if never set) and the metadata last set (None if never set).
C15_BuiltShape ==
    (BuildReturned /\ result.kind = "Ok") =>
        /\ [k \in 1 .. Len(tx.inputs) |-> tx.inputs[k].commitment]
              = CommitmentsOf(calls.inputs)
        /\ [k \in 1 .. Len(tx.outputs) |-> tx.outputs[k].commitment]
              = CommitmentsOf(calls.outputs)
        /\ Len(tx.range_proofs) = Len(tx.outputs)
        /\ \A k \in 1 .. Len(tx.range_proofs) :
              /\ tx.range_proofs[k]
                    = RangeProofProve(calls.outputs[k][1], calls.outputs[k][2],
                                      U64Bits).proof
              /\ RangeProofVerify(tx.range_proofs[k], tx.outputs[k].commitment)
        /\ tx.fee = calls.fee
        /\ tx.metadata = calls.metadata

\* build() succeeded on one input, two different outputs, fee 1 and metadata.
C15_Witness ==
    /\ BuildReturned /\ result.kind = "Ok"
    /\ Len(tx.inputs) = 1
    /\ Len(tx.outputs) = 2
    /\ tx.outputs[1] # tx.outputs[2]
    /\ tx.fee = 1
    /\ tx.metadata = Some(<<1>>)

RECURSIVE BlindingTotal(_)
\* The integer sum of the blindings passed to the builder.
BlindingTotal(args) ==
    IF args = <<>> THEN 0
    ELSE BlindingTotal(SubSeq(args, 1, Len(args) - 1)) + args[Len(args)][2]

\* C16: calculate_change_blinding returns the sum of the recorded input
\* blindings minus the sum of the recorded output blindings modulo the group
\* order, zero on an empty builder, and leaves inputs, outputs, fee and
\* metadata as they were.
C16_ChangeBlinding ==
    calculated.some =>
        /\ calculated.value
              = (BlindingTotal(calls.inputs) - BlindingTotal(calls.outputs))
                    % GroupOrder
        /\ (calls.inputs = <<>> /\ calls.outputs = <<>>)
              => calculated.value = ScalarZero
        /\ calculated.before = <<inputs, outputs, fee, metadata>>

\* The output blindings outweigh the input blindings: the difference wraps
\* around the group order.
C16_Witness ==
    /\ calculated.some
    /\ Len(inputs) >= 1 /\ Len(outputs) >= 1
    /\ BlindingTotal(calls.inputs) < BlindingTotal(calls.outputs)
    /\ calculated.value > 1

C18_OutputRoundTrip ==
    wire.origin = "output" =>
        /\ Len(wire.data) = PairBytes
        /\ SubSeq(wire.data, 1, PointBytes) = Compress(stx.ephemeral_public)
        /\ SubSeq(wire.data, PointBytes + 1, PairBytes)
              = Compress(stx.one_time_public)
        /\ decoded.by = "from_transaction_data" =>
              /\ decoded.result.ok
              /\ decoded.result.value.ephemeral_public = stx.ephemeral_public
              /\ decoded.result.value.one_time_public = stx.one_time_public

C18_Witness ==
    /\ wire.origin = "output"
    /\ decoded.by = "from_transaction_data" /\ decoded.result.ok
    /\ stx.ephemeral_public # stx.one_time_public
    /\ stx.ephemeral_public # Identity

\* The bytes are an encoding of a group element: of the right length and
\* below the number of group elements.
Canonical(bytes) ==
    /\ Len(bytes) = PointBytes
    /\ \E h \in Scalars, g \in Scalars : Compress(<<h, g>>) = bytes

\* The bytes are the encodings of two group elements, one after the other.
WellFormed(bytes) ==
    /\ Len(bytes) = PairBytes
    /\ Canonical(SubSeq(bytes, 1, PointBytes))
    /\ Canonical(SubSeq(bytes, PointBytes + 1, PairBytes))

\* C20: from_bytes and from_transaction_data return Err(Serialization) for
\* any input whose length is not the pair length or one of whose halves does
\* not decompress; from_base58 returns Err(Serialization) for invalid base58;
\* a value is returned only when both points decompress.
C20_MalformedRejected ==
    /\ decoded.by \in {"from_bytes", "from_transaction_data"} =>
          /\ decoded.result.ok <=> WellFormed(wire.data)
          /\ ~decoded.result.ok => decoded.result.error = "Serialization"
    /\ decoded.by = "from_base58" =>
          /\ (\E k \in 1 .. Len(wire.data) : wire.data[k] = NotBase58)
                => ~decoded.result.ok
          /\ ~decoded.result.ok => decoded.result.error = "Serialization"
          /\ decoded.result.ok =>
                /\ Base58Encode(to_bytes(decoded.result.value)) = wire.data
                /\ WellFormed(to_bytes(decoded.result.value))

\* Received bytes of the right length whose first half is a point and whose
\* second half is not.
C20_Witness ==
    /\ wire.origin = "foreign" /\ wire.kind = "bytes"
    /\ decoded.by = "from_bytes"
    /\ Len(wire.data) = PairBytes
    /\ Canonical(SubSeq(wire.data, 1, PointBytes))
    /\ ~Canonical(SubSeq(wire.data, PointBytes + 1, PairBytes))
    /\ ~decoded.result.ok
    /\ decoded.result.error = "Serialization"

\* C19: from_bytes(to_bytes(tx)) succeeds and equals tx field by field
\* (inputs, outputs, range_proofs, fee, metadata, in the same order), and
\* verify() answers the same before and after.
C19_TransactionRoundTrip ==
    /\ wbytes.some => wbytes.ok
    /\ wback.some =>
          /\ wback.ok
          /\ wback.value.inputs = wtx.inputs
          /\ wback.value.outputs = wtx.outputs
          /\ wback.value.range_proofs = wtx.range_proofs
          /\ wback.value.fee = wtx.fee
          /\ wback.value.metadata = wtx.metadata
          /\ verify(wback.value) = verify(wtx)

\* A transaction that verifies, with a signature, an address and metadata,
\* came back from its bytes.
C19_Witness ==
    /\ wback.some
    /\ Len(wtx.inputs) = 1 /\ Len(wtx.outputs) = 1
    /\ wtx.inputs[1].signature # <<>>
    /\ wtx.inputs[1].prev_output_index # 0
    /\ wtx.outputs[1].address # <<>>
    /\ wtx.outputs[1].encrypted_amount.some
    /\ wtx.metadata.some
    /\ verify_balance(wtx)

\* The public keys of a master key are its private keys times G.
Consistent(key) ==
    /\ key.spend_public = <<0, key.spend_private>>
    /\ key.view_public = <<0, key.view_private>>

\* C21: every master key returned by generate() or from_keys has
\* spend_public = spend_private*G and view_public = view_private*G, and
\* from_keys on the exported scalars reproduces the four components.
C21_MasterKeyConsistency ==
    /\ master.present => Consistent(master)
    /\ restored.present =>
          /\ Consistent(restored)
          /\ restored.spend_private = master.spend_private
          /\ restored.spend_public = master.spend_public
          /\ restored.view_private = master.view_private
          /\ restored.view_public = master.view_public

\* A key with two different private scalars, the spend one above one byte's
\* worth of seed, was exported and restored.
C21_Witness ==
    /\ restored.present
    /\ master.spend_private # master.view_private
    /\ master.spend_private > MaxSeedByte
    /\ master.view_private > 0

\* The last call was open_wallet.
Opened == lastCall.op = "open_wallet"

\* C22: open_wallet succeeds only if the store holds a mnemonic_hash equal to
\* the hash of the supplied mnemonic; with a different mnemonic it returns
\* Err(InvalidMnemonic), with no stored hash Err(Storage), and in both
\* failure cases no WalletState is produced.
C22_OpenAuthenticates ==
    Opened =>
        /\ lastCall.kind = "Ok" =>
              /\ "mnemonic_hash" \in DOMAIN db.meta
              /\ db.meta["mnemonic_hash"] = hash_mnemonic(lastCall.arg)
              /\ wallet.live /\ wallet.mnemonic = lastCall.arg
        /\ "mnemonic_hash" \notin DOMAIN db.meta =>
              (lastCall.kind = "Storage" /\ ~wallet.live)
        /\ (/\ "mnemonic_hash" \in DOMAIN db.meta
            /\ \E m \in Mnemonics \ {lastCall.arg} :
                  db.meta["mnemonic_hash"] = hash_mnemonic(m)) =>
              (lastCall.kind = "InvalidMnemonic" /\ ~wallet.live)

\* A wallet with two accounts was created with one valid mnemonic and
\* open_wallet was refused for the other valid mnemonic.
C22_Witness ==
    /\ Opened
    /\ lastCall.kind = "InvalidMnemonic"
    /\ lastCall.arg \in ValidMnemonics
    /\ Len(db.accounts) = 2
    /\ ~wallet.live

\* The account indices of a wallet, in list order.
AccountIndices(w) == [k \in 1 .. Len(w.accounts) |-> w.accounts[k].index]

\* C23: switch_account(i) succeeds and sets the current account index to i
\* exactly when an account with index i is in the wallet; otherwise it returns
\* Err(InvalidParameter) and leaves the current index and the account list
\* unchanged.
C23_SwitchAccount ==
    lastCall.op = "switch_account" =>
        LET w == lastCall.before.wallet
            exists == \E k \in 1 .. Len(w.accounts) :
                          w.accounts[k].index = lastCall.arg
        IN  /\ wallet.accounts = w.accounts
            /\ exists => (lastCall.kind = "Ok"
                            /\ wallet.current_account_index = lastCall.arg)
            /\ ~exists => (lastCall.kind = "InvalidParameter"
                            /\ wallet.current_account_index
                                  = w.current_account_index)

\* With account 1 current, a switch to an index no account has was refused.
C23_Witness ==
    /\ lastCall.op = "switch_account"
    /\ lastCall.kind = "InvalidParameter"
    /\ wallet.current_account_index = 1
    /\ lastCall.arg > 1

\* The live wallet came from new_wallet, then had add_account and
\* switch_account calls only.
Created == wallet.live /\ origin = "new_wallet"

\* The part of C24 about indices: the in-memory indices are 0..n-1 in order,
\* the store holds the same indices, a successful add_account adds the one
\* account n, a failed one adds none, and open_wallet with the same mnemonic
\* loads accounts of the same indices.
AccountSetContiguous ==
    Created =>
        /\ \A k \in 1 .. Len(wallet.accounts) : wallet.accounts[k].index = k - 1
        /\ Len(db.accounts) = Len(wallet.accounts)
        /\ {db.accounts[k].index : k \in 1 .. Len(db.accounts)}
              = 0 .. (Len(wallet.accounts) - 1)
        /\ lastCall.op = "add_account" =>
              LET w == lastCall.before.wallet
              IN  /\ lastCall.kind = "Ok" =>
                        /\ Len(wallet.accounts) = Len(w.accounts) + 1
                        /\ SubSeq(wallet.accounts, 1, Len(w.accounts)) = w.accounts
                        /\ wallet.accounts[Len(wallet.accounts)].index
                              = Len(w.accounts)
                  /\ lastCall.kind # "Ok" =>
                        (wallet = w /\ db = lastCall.before.db)
        /\ open_wallet(db, wallet.mnemonic).kind = "Ok"
        /\ AccountIndices(open_wallet(db, wallet.mnemonic).wallet)
              = AccountIndices(wallet)

\* C24 as stated: the account set is contiguous and stored, and a later
\* open_wallet with the same mnemonic loads exactly the wallet's accounts.
C24_AccountSetPersistent ==
    /\ AccountSetContiguous
    /\ Created =>
          open_wallet(db, wallet.mnemonic).wallet.accounts = wallet.accounts

\* A wallet of three accounts after a failed add_account.
AccountSetWitness ==
    /\ Created
    /\ Len(wallet.accounts) = MaxAccounts
    /\ \E k \in 1 .. Len(db.accounts) : db.accounts[k].name = "Savings"

\* The store held an initialised wallet before the last call.
WasInitialised ==
    /\ "mnemonic_hash" \in DOMAIN lastCall.before.db.meta
    /\ lastCall.before.db.accounts # <<>>

\* C28 as stated: when new_wallet returns an error on a store that holds an
\* initialised wallet, the stored metadata and accounts are unchanged, and
\* open_wallet with a mnemonic that opened the wallet before still succeeds.
C28_FailedCreationNoEffect ==
    (lastCall.op = "new_wallet" /\ lastCall.kind # "Ok" /\ WasInitialised) =>
        /\ db = lastCall.before.db
        /\ \A m \in Mnemonics :
              open_wallet(lastCall.before.db, m).kind = "Ok" =>
                  open_wallet(db, m).kind = "Ok"

\* C29: for a wallet obtained from new_wallet, after any add_account and
\* switch_account calls, failing ones included, current_account_index is the
\* index of an account in the list and current_account() returns Ok with it.
C29_CurrentAccountExists ==
    Created =>
        /\ \E k \in 1 .. Len(wallet.accounts) :
              wallet.accounts[k].index = wallet.current_account_index
        /\ current_account(wallet).kind = "Ok"
        /\ current_account(wallet).account.index = wallet.current_account_index
        /\ \E k \in 1 .. Len(wallet.accounts) :
              wallet.accounts[k] = current_account(wallet).account

\* A created wallet whose current account is its last, after a refused switch.
C29_Witness ==
    /\ Created
    /\ wallet.current_account_index = MaxAccounts - 1
    /\ lastCall.op = "switch_account"
    /\ lastCall.kind = "InvalidParameter"

\* The rows a get_unspent_stealth_outputs result lists.
Returned(res) == {res[k] : k \in DOMAIN res}

\* C27: an output mark_stealth_output_spent succeeded for is never returned
\* by get_unspent_stealth_outputs again, whatever is stored or marked later;
\* marking is idempotent and changes no other row; and the query returns
\* exactly the rows of the account whose spent flag is false.
C27_SpentIrreversible ==
    /\ \A id \in marked :
          /\ \E k \in 1 .. Len(stealth_outputs) :
                stealth_outputs[k].id = id /\ stealth_outputs[k].spent
          /\ \A account_id \in AccountIds :
                \A res \in get_unspent_stealth_outputs(stealth_outputs, account_id) :
                    \A k \in DOMAIN res : res[k].id # id
          /\ lastStore.op = "get_unspent_stealth_outputs" =>
                \A k \in DOMAIN lastStore.returned : lastStore.returned[k].id # id
    /\ lastStore.op = "mark_stealth_output_spent" =>
          /\ Len(stealth_outputs) = Len(lastStore.before)
          /\ \A k \in 1 .. Len(stealth_outputs) :
                IF lastStore.before[k].id = lastStore.arg
                THEN stealth_outputs[k] = [lastStore.before[k] EXCEPT !.spent = TRUE]
                ELSE stealth_outputs[k] = lastStore.before[k]
          /\ mark_stealth_output_spent(stealth_outputs, lastStore.arg)
                = stealth_outputs
    /\ lastStore.op = "get_unspent_stealth_outputs" =>
          /\ Returned(lastStore.returned)
                = { stealth_outputs[k] : k \in { j \in 1 .. Len(stealth_outputs) :
                        /\ stealth_outputs[j].account_id = lastStore.arg
                        /\ stealth_outputs[j].spent = FALSE } }
          /\ Cardinality(Returned(lastStore.returned)) = Len(lastStore.returned)

\* Output 1 was marked spent, an output of the same account was stored
\* afterwards, and the query for that account returned the later one only.
C27_Witness ==
    /\ 1 \in marked
    /\ lastStore.op = "get_unspent_stealth_outputs"
    /\ lastStore.arg = stealth_outputs[1].account_id
    /\ Len(lastStore.returned) = 1
    /\ lastStore.returned[1].id = MaxStored
    /\ \E k \in 2 .. Len(stealth_outputs) :
          stealth_outputs[k].account_id = lastStore.arg /\ stealth_outputs[k].spent

\* What scan_transaction decides for output i of the batch, alone.
Decision(i) ==
    scan_transaction(master, batch[i + 1].ephemeral_public,
                     batch[i + 1].one_time_public)

\* The (index, scalar) pairs scan_transaction gives on a set of indices.
DecidedPairs(set) == {<<i, Decision(i).value>> : i \in {j \in set : Decision(j).some}}

\* C25: whether an output is reported, and with which scalar, depends on the
\* master key and that output's (R, P) only: not on the other outputs of the
\* shard, their order, or the cache of the scanner.  Hence the merged results
\* of any partition of the batch among scanners of the same key are the set
\* of (index, scalar) pairs the scan of the whole batch gives.
C25_ShardingEquivalence ==
    ownedA.done =>
        /\ WithOffsets(ownedA.owned, Ascending(0 .. (Len(batch) - 1)))
              = DecidedPairs(0 .. (Len(batch) - 1))
        /\ shards.merged = DecidedPairs(shards.assigned)
        /\ shards.assigned = 0 .. (Len(batch) - 1) =>
              shards.merged
                  = {<<ownedA.owned[k][1], ownedA.owned[k][2]>> :
                        k \in 1 .. Len(ownedA.owned)}

\* A full batch was split among both workers, one of them given more than
\* one output; some outputs matched and some did not.
C25_Witness ==
    /\ ownedA.done
    /\ Len(batch) = MaxBatch
    /\ shards.assigned = 0 .. (Len(batch) - 1)
    /\ scannedBy[1] # {} /\ scannedBy[2] # {}
    /\ scannedBy[1] \cap scannedBy[2] = {}
    /\ shards.merged # {}
    /\ Cardinality(shards.merged) < Len(batch)

\* The keys of the outputs among the given indices that match the master key.
MatchedKeys(set) ==
    {to_transaction_data(batch[i + 1]) : i \in {j \in set : Decision(j).some}}

\* The cache holds exactly the given keys, each compress(R) followed by
\* compress(P) of an output with a scalar p, p*G = P, and get_private_key
\* answers from it.
CacheHolds(cache, keys) ==
    /\ DOMAIN cache = keys
    /\ \A i \in 0 .. (Len(batch) - 1) :
          LET tx_data == Compress(batch[i + 1].ephemeral_public)
                            \o Compress(batch[i + 1].one_time_public)
          IN  /\ Len(tx_data) = 2 * PointBytes
              /\ IF tx_data \in keys
                 THEN /\ Len(get_private_key(cache, tx_data)) = 1
                      /\ PointMul(get_private_key(cache, tx_data)[1], BasePointG)
                            = batch[i + 1].one_time_public
                 ELSE get_private_key(cache, tx_data) = <<>>
    /\ get_private_key(cache, <<>>) = <<>>

\* The cache holds exactly the matched outputs among those scanned.
CacheExact(cache, set) == CacheHolds(cache, MatchedKeys(set))

\* No scan removes an entry of a worker's cache or changes its scalar.
EntriesKept ==
    \A w \in Workers : \A k \in DOMAIN workerCache[w] :
        k \in DOMAIN workerCache'[w] /\ workerCache'[w][k] = workerCache[w][k]

OtherFields ==
    { [prev_tx_hash |-> [k \in 1 .. MaxItems |-> [i \in 1 .. PointBytes |-> ByteBase - 1]],
       prev_output_index |-> [k \in 1 .. MaxItems |-> ByteBase],
       signature |-> [k \in 1 .. MaxItems |-> <<7>>],
       address |-> [k \in 1 .. MaxItems + 1 |-> <<1, 0>>],
       encrypted_amount |-> [k \in 1 .. MaxItems + 1 |-> Some(<<0>>)],
       metadata |-> Some(<<1>>)],
      [prev_tx_hash |-> [k \in 1 .. MaxItems |-> [i \in 1 .. PointBytes |-> k]],
       prev_output_index |-> [k \in 1 .. MaxItems |-> k],
       signature |-> [k \in 1 .. MaxItems |-> IF k = 1 THEN <<>> ELSE <<k, 7>>],
       address |-> [k \in 1 .. MaxItems + 1 |-> <<k>>],
       encrypted_amount |-> [k \in 1 .. MaxItems + 1 |->
                                IF k = 1 THEN Some(<<>>) ELSE None],
       metadata |-> Some(<<>>)] }

\* The transaction with the commitments, range proofs and fee of t and the
\* given other fields.
WithOtherFields(t, f) ==
    [inputs |-> [k \in 1 .. Len(t.inputs) |->
                    [prev_tx_hash |-> f.prev_tx_hash[k],
                     prev_output_index |-> f.prev_output_index[k],
                     commitment |-> t.inputs[k].commitment,
                     signature |-> f.signature[k]]],
     outputs |-> [k \in 1 .. Len(t.outputs) |->
                    [address |-> f.address[k],
                     commitment |-> t.outputs[k].commitment,
                     encrypted_amount |-> f.encrypted_amount[k]]],
     range_proofs |-> t.range_proofs,
     fee |-> t.fee,
     metadata |-> f.metadata]

\* C30: transactions that agree on every input commitment, every output
\* commitment, range_proofs and fee get the same verify() result, whatever
\* their signatures (empty ones included), prev_tx_hash, prev_output_index,
\* addresses, encrypted amounts and metadata are; in particular the empty
\* signatures build() writes do not keep a built transaction from being
\* accepted.
C30_VerifyReadsCommitmentsOnly ==
    HasTx =>
        /\ LET result_of_tx == verify(tx)
           IN  \A f \in OtherFields :
                   verify(WithOtherFields(tx, f)) = result_of_tx
        /\ (BuildReturned /\ result.kind = "Ok") =>
              \A k \in 1 .. Len(tx.inputs) : tx.inputs[k].signature = <<>>

\* build() returned a transaction of two inputs with empty signatures that
\* verify() accepts, and accepts with signatures and the other fields set.
C30_Witness ==
    /\ BuildReturned /\ result.kind = "Ok"
    /\ Len(tx.inputs) = 2
    /\ tx.metadata # None
    /\ \A k \in 1 .. Len(tx.inputs) : tx.inputs[k].signature = <<>>
    /\ verify(tx) = "Ok(true)"
    /\ \A f \in OtherFields : verify(WithOtherFields(tx, f)) = "Ok(true)"

====
